---- MODULE Spec2Model ----
(***************************************************************************)
(* Frontmatter Decorator (Obsidian plugin): style cache, style applicator, *)
(* the six DOM observers and the plugin orchestrator.                      *)
(*                                                                         *)
(* JavaScript values are records tagged by type; strings are sequences of  *)
(* tokens so that startsWith / includes / slice / split are computed.      *)
(***************************************************************************)
EXTENDS Integers, Sequences, FiniteSets, TLC

VARIABLES
    \* host: vault + metadata index, third-party icon plugin, the note each
    \* element of the document displays and the attributes and text it is
    \* rendered with, the surfaces whose root container is in the document
    meta, nnInstalled, nnMode, shows, layout, present,
    \* plugin
    settings, cache, nnChecked, nnRef, dom,
    \* call history of the cache API (CacheSpec)
    fresh, firstMeta, lastGet,
    \* call history of the applicator API
    hist,
    \* orchestrator, observers and host event loop
    loaded, observers, insts, regs, timers, savesPending, saves,
    pendingChanged, quiet, hostSteps, tick,
    \* what the last handler did
    changedLog, staleRan, handlerLog

cacheVars == <<meta, settings, cache>>
nnVars    == <<nnInstalled, nnMode, nnChecked, nnRef>>
cacheHist == <<fresh, firstMeta, lastGet>>
sysVars   == <<loaded, observers, insts, regs, timers, savesPending,
               saves, pendingChanged, quiet, hostSteps, tick, changedLog,
               staleRan, handlerLog, shows, layout, present>>
vars == <<meta, nnInstalled, nnMode, shows, layout, present, settings, cache, nnChecked, nnRef, dom,
          fresh, firstMeta, lastGet, hist,
          loaded, observers, insts, regs, timers, savesPending, saves,
          pendingChanged, quiet, hostSteps, tick, changedLog, staleRan,
          handlerLog>>

----------------------------------------------------------------------------
(* JavaScript values *)

Null  == [t |-> "null"]
Undef == [t |-> "undefined"]
Str(s) == [t |-> "str", s |-> s]
EmptyStr == Str(<<>>)

\* JS truthiness: null, undefined and "" are falsy
Truthy(v) == v.t = "str" /\ v.s # <<>>

\* values of other types that a frontmatter field can hold
Num(n) == [t |-> "num", n |-> n]
Bool(b) == [t |-> "bool", b |-> b]
List == [t |-> "list"]

\* the falsy values among all of them
Falsy(v) == v \in {Null, Undef, EmptyStr, Num(0), Bool(FALSE)}

StartsWith(s, pre) == Len(s) >= Len(pre) /\ SubSeq(s, 1, Len(pre)) = pre
EndsWith(s, suf) ==
    Len(s) >= Len(suf) /\ SubSeq(s, Len(s) - Len(suf) + 1, Len(s)) = suf
Includes(s, tok) == \E i \in 1..Len(s) : s[i] = tok
Slice(s, n) == SubSeq(s, n + 1, Len(s))

----------------------------------------------------------------------------
(* Vault and metadata index *)

PathA == <<"a", ".md">>
PathB == <<"Projects/", "b", ".md">>
Paths == {PathA, PathB}

NoFile == [t |-> "nofile"]     \* path resolves to no markdown TFile
Folder == [t |-> "folder"]     \* path resolves to a TFolder
OtherFile == [t |-> "other"]   \* path resolves to a TFile whose extension is not md
NoFM   == [t |-> "nofm"]       \* markdown file without frontmatter
FM(f)  == [t |-> "fm", f |-> f]

FieldNames == {"color", "icon"}

Red  == Str(<<"red">>)
Blue == Str(<<"blue">>)
Star == Str(<<"star">>)
LucideStar == Str(<<"lucide-", "star">>)
PhBridge == Str(<<"phosphor", ":", "ph-", "bridge">>)
UnknownNs == Str(<<"unknown-ns", ":", "foo">>)

Fields(c, i) == [n \in FieldNames |-> IF n = "color" THEN c ELSE i]

\* frontmatter mappings the host index can hold for a file
ColorValues == {Undef, EmptyStr, Red, Blue}
IconValues  == {Undef, Star, PhBridge, UnknownNs}
MetaEntries ==
    {NoFile, NoFM} \cup {FM(Fields(c, i)) : c \in ColorValues, i \in IconValues}

DEFAULT_SETTINGS ==
    [colorField |-> "color", iconField |-> "icon",
     enableFileExplorer |-> TRUE, enableTabHeader |-> TRUE,
     enableQuickSwitcher |-> TRUE, enableSuggester |-> TRUE,
     enableBacklinks |-> TRUE, enableBases |-> TRUE,
     enableEditorLinks |-> TRUE]

----------------------------------------------------------------------------
(* FileStyleCache *)

NullStyle == [color |-> Null, icon |-> Null]
Absent == [t |-> "absent"]
EmptyCache == [p \in Paths |-> Absent]

\* a ?? null
Coalesce(v) == IF v = Null \/ v = Undef THEN Null ELSE v

computeStyleFrom(entry, st) ==
    IF entry \in {NoFile, Folder, OtherFile} THEN NullStyle
    ELSE IF entry = NoFM THEN NullStyle
    ELSE [color |-> Coalesce(entry.f[st.colorField]),
          icon  |-> Coalesce(entry.f[st.iconField])]

computeStyle(filePath) == computeStyleFrom(meta[filePath], settings)

\* value returned by getStyle(filePath) on cache map c
getStyle(c, filePath) ==
    IF c[filePath] # Absent THEN c[filePath] ELSE computeStyle(filePath)

getStyleCache_NoMemo(c, filePath) == c

\* cache map after getStyle(filePath)
getStyleCache(c, filePath) ==
    IF c[filePath] # Absent THEN c
    ELSE [c EXCEPT ![filePath] = computeStyle(filePath)]

invalidate(c, filePath) == [c EXCEPT ![filePath] = Absent]

clear(c) == EmptyCache

----------------------------------------------------------------------------
(* DOM elements *)

Elements == {"row", "img", "oth", "tab", "sug", "lsug", "bl", "bs", "lnk"}

TextNode == [t |-> "text"]
Blank == [by |-> "blank"]                  \* an icon container without children
Rendered(by, id) == [by |-> by, id |-> id]
IconSpan(c) == [t |-> "icon", content |-> c]   \* span.frontmatter-icon

\* element as the host renders it: no inline color, no dataset entries
PristineEl ==
    [color |-> EmptyStr, marker |-> Undef, children |-> <<TextNode>>,
     styled |-> FALSE, styledFor |-> Undef, inSet |-> FALSE]
PristineDom == [e \in Elements |-> PristineEl]

IsIcon(n) == n.t = "icon"
HasIcon(ch) == \E i \in 1..Len(ch) : IsIcon(ch[i])
\* element.querySelector(".frontmatter-icon"): first match in document order
FirstIcon(ch) ==
    CHOOSE i \in 1..Len(ch) : IsIcon(ch[i]) /\ \A j \in 1..(i - 1) : ~IsIcon(ch[j])
NumIcons(ch) == Cardinality({i \in 1..Len(ch) : IsIcon(ch[i])})
RemoveAt(ch, i) == SubSeq(ch, 1, i - 1) \o SubSeq(ch, i + 1, Len(ch))

----------------------------------------------------------------------------
(* Icon renderers of the host *)

\* names the built-in setIcon() knows; any other name renders nothing
BuiltinIcons == {<<"lucide-", "star">>}
\* identifiers Notebook Navigator's iconService renders
NNCatalog == {<<"phosphor", ":", "bridge">>, <<"lucide-", "star">>}
NNModes == {"ok", "throws", "empty", "noservice"}

----------------------------------------------------------------------------
(* StyleApplicator *)

getNotebookNavigator_NoCache(chk, ref) == [checked |-> TRUE, ref |-> nnInstalled]

\* [checked, ref] after getNotebookNavigator(); ref is the value it returns
getNotebookNavigator(chk, ref) ==
    IF chk THEN [checked |-> TRUE, ref |-> ref]
    ELSE [checked |-> TRUE, ref |-> nnInstalled]

\* "phosphor:ph-" and "simple-icons:si-" are three tokens each
normalizeIconIdForNN(iconId) ==
    IF iconId = <<>> THEN iconId
    ELSE IF StartsWith(iconId, <<"phosphor", ":", "ph-">>)
         THEN <<"phosphor", ":">> \o Slice(iconId, 3)
    ELSE IF StartsWith(iconId, <<"simple-icons", ":", "si-">>)
         THEN <<"simple-icons", ":">> \o Slice(iconId, 3)
    ELSE iconId

normalizeLucideIcon_AlwaysPrefix(iconId) ==
    IF iconId = <<>> THEN Null
    ELSE IF Includes(iconId, ":") THEN Null
    ELSE Str(<<"lucide-">> \o iconId)

normalizeLucideIcon_PassNamespaced(iconId) ==
    IF iconId = <<>> THEN Null
    ELSE IF StartsWith(iconId, <<"lucide-">>) THEN Str(iconId)
    ELSE IF Includes(iconId, ":") THEN Str(iconId)
    ELSE Str(<<"lucide-">> \o iconId)

\* Null for "no built-in name"
normalizeLucideIcon(iconId) ==
    IF iconId = <<>> THEN Null
    ELSE IF StartsWith(iconId, <<"lucide-">>) THEN Str(iconId)
    ELSE IF Includes(iconId, ":") THEN Null
    ELSE Str(<<"lucide-">> \o iconId)

\* content of the (emptied) container after the call, its return value, and
\* whether iconService.renderIcon was called
applyIconWithNotebookNavigator(iconId) ==
    LET normalizedIconId == normalizeIconIdForNN(iconId) IN
    IF nnMode = "ok" /\ normalizedIconId \in NNCatalog
    THEN [success |-> TRUE, content |-> Rendered("nn", normalizedIconId),
          called |-> TRUE]
    ELSE [success |-> FALSE, content |-> Blank, called |-> nnMode # "noservice"]

\* content of an empty container after setIcon(container, name)
setIcon(name) ==
    IF name \in BuiltinIcons THEN Rendered("setIcon", name) ELSE Blank

\* the render calls applyIcon makes: the service's renderIcon, then setIcon
\* unless the service rendered
RenderCalls(iconId, viaNN, normalizedIcon) ==
    (IF viaNN.called
     THEN {[by |-> "nn", id |-> normalizeIconIdForNN(iconId)]} ELSE {})
    \cup (IF ~viaNN.success /\ normalizedIcon # Null
          THEN {[by |-> "setIcon", id |-> normalizedIcon.s]} ELSE {})

applyIcon_AlwaysCreate(el, iconId, chk, ref) ==
    LET nn == getNotebookNavigator(chk, ref)
        viaNN == IF nn.ref THEN applyIconWithNotebookNavigator(iconId)
                 ELSE [success |-> FALSE, content |-> Blank, called |-> FALSE]
        normalizedIcon == normalizeLucideIcon(iconId)
        content == IF viaNN.success THEN viaNN.content
                   ELSE IF normalizedIcon # Null THEN setIcon(normalizedIcon.s)
                   ELSE Blank
    IN [el |-> [el EXCEPT !.children = <<IconSpan(content)>> \o el.children],
        checked |-> nn.checked, ref |-> nn.ref,
        writes |-> {"insert"} \cup (IF content # Blank THEN {"render"} ELSE {}),
        calls |-> RenderCalls(iconId, viaNN, normalizedIcon)]

applyIcon_KeepExisting(el, iconId, chk, ref) ==
    IF HasIcon(el.children)
    THEN [el |-> el, checked |-> chk, ref |-> ref, writes |-> {}, calls |-> {}]
    ELSE applyIcon_AlwaysCreate(el, iconId, chk, ref)

applyIcon_CacheFailure(el, iconId, chk, ref) ==
    LET had == HasIcon(el.children)
        ch1 == IF had THEN el.children ELSE <<IconSpan(Blank)>> \o el.children
        i == FirstIcon(ch1)
        r == applyIcon_AlwaysCreate(PristineEl, iconId, chk, ref)
        new == r.el.children[1].content
        failed == (\E c \in r.calls : c.by = "nn") /\ (new = Blank \/ new.by # "nn")
    IN [r EXCEPT !.el = [el EXCEPT !.children = [ch1 EXCEPT ![i] = IconSpan(new)]],
                 !.ref = r.ref /\ ~failed]

applyIcon_NoClear(el, iconId, chk, ref) ==
    LET had == HasIcon(el.children)
        ch1 == IF had THEN el.children ELSE <<IconSpan(Blank)>> \o el.children
        i == FirstIcon(ch1)
        old == ch1[i].content
        r == applyIcon_AlwaysCreate(PristineEl, iconId, chk, ref)
        new == r.el.children[1].content
    IN [r EXCEPT !.el = [el EXCEPT !.children =
                            [ch1 EXCEPT ![i] = IconSpan(IF new = Blank THEN old ELSE new)]]]

\* element, probe state and child-list mutations after applyIcon(element, iconId)
applyIcon(el, iconId, chk, ref) ==
    LET had == HasIcon(el.children)
        ch1 == IF had THEN el.children ELSE <<IconSpan(Blank)>> \o el.children
        i == FirstIcon(ch1)
        old == ch1[i].content
        nn == getNotebookNavigator(chk, ref)
        viaNN == IF nn.ref THEN applyIconWithNotebookNavigator(iconId)
                 ELSE [success |-> FALSE, content |-> Blank, called |-> FALSE]
        normalizedIcon == normalizeLucideIcon(iconId)
        content == IF viaNN.success THEN viaNN.content
                   ELSE IF normalizedIcon # Null THEN setIcon(normalizedIcon.s)
                   ELSE Blank
    IN [el |-> [el EXCEPT !.children = [ch1 EXCEPT ![i] = IconSpan(content)]],
        checked |-> nn.checked, ref |-> nn.ref,
        writes |-> (IF had THEN {} ELSE {"insert"})
                   \cup (IF old # Blank THEN {"empty"} ELSE {})
                   \cup (IF content # Blank THEN {"render"} ELSE {}),
        calls |-> RenderCalls(iconId, viaNN, normalizedIcon)]

SetColor_ClearWhenAbsent(el, style) ==
    IF Truthy(style.color)
    THEN [el EXCEPT !.color = style.color, !.marker = style.color]
    ELSE [el EXCEPT !.color = EmptyStr, !.marker = Undef]

\* if (style.color): the inline color and the recorded marker
SetColor(el, style) ==
    IF Truthy(style.color)
    THEN [el EXCEPT !.color = style.color, !.marker = style.color] ELSE el

AddToStyledSet_Always(r, style) == [r EXCEPT !.el.inSet = TRUE]

\* if (style.color || style.icon) this.styledElements.add(element)
AddToStyledSet(r, style) ==
    IF Truthy(style.color) \/ Truthy(style.icon)
    THEN [r EXCEPT !.el.inSet = TRUE] ELSE r

\* element, probe state and child-list mutations after applyStyle, for the
\* style that getStyle(filePath) returned
applyStyle(el, style, chk, ref) ==
    AddToStyledSet(
        IF Truthy(style.icon)
        THEN applyIcon(SetColor(el, style), style.icon.s, chk, ref)
        ELSE [el |-> SetColor(el, style), checked |-> chk, ref |-> ref,
              writes |-> {}, calls |-> {}],
        style)

removeStyle_KeepMarker(el) ==
    LET ch == el.children IN
    [el EXCEPT !.color = EmptyStr,
               !.children = IF HasIcon(ch) THEN RemoveAt(ch, FirstIcon(ch)) ELSE ch,
               !.inSet = FALSE]

removeStyle(el) ==
    LET ch == el.children IN
    [el EXCEPT !.color = EmptyStr, !.marker = Undef,
               !.children = IF HasIcon(ch) THEN RemoveAt(ch, FirstIcon(ch)) ELSE ch,
               !.inSet = FALSE]

----------------------------------------------------------------------------
(* Host vault and link resolution *)

VaultOrder == <<PathA, PathB>>
IsFile(p) == p \in Paths /\ meta[p] \notin {NoFile, Folder, OtherFile}
getMarkdownFiles == SelectSeq(VaultOrder, IsFile)
basename(p) == <<p[Len(p) - 1]>>
MinOf(S) == CHOOSE i \in S : \A j \in S : i <= j

getAbstractFileByPath(p) == IF IsFile(p) THEN Str(p) ELSE Null

\* files.find((f) => f.basename === name || f.path === path)
FindFile(name, path) ==
    LET fs == getMarkdownFiles
        hits == {i \in 1..Len(fs) : basename(fs[i]) = name \/ fs[i] = path}
    IN IF hits = {} THEN Null ELSE Str(fs[MinOf(hits)])

\* host primitive: link text (a path or a base name, extension optional)
getFirstLinkpathDest(link) ==
    LET fs == getMarkdownFiles
        hits == {i \in 1..Len(fs) :
                    \/ fs[i] = link
                    \/ SubSeq(fs[i], 1, Len(fs[i]) - 1) = link
                    \/ basename(fs[i]) = link}
    IN IF hits = {} THEN Null ELSE Str(fs[MinOf(hits)])

\* String.prototype.trim on token sequences
RECURSIVE Trim(_)
Trim(s) ==
    IF s # <<>> /\ Head(s) = " " THEN Trim(Tail(s))
    ELSE IF s # <<>> /\ s[Len(s)] = " " THEN Trim(SubSeq(s, 1, Len(s) - 1))
    ELSE s

\* s.replace(/^\[\[|\]\]$/g, "")
StripBrackets(s) ==
    LET s1 == IF s # <<>> /\ Head(s) = "[[" THEN Tail(s) ELSE s
    IN IF s1 # <<>> /\ s1[Len(s1)] = "]]" THEN SubSeq(s1, 1, Len(s1) - 1) ELSE s1

\* s.split(tok)[0]
SplitFirst(s, tok) ==
    IF Includes(s, tok)
    THEN SubSeq(s, 1, MinOf({i \in 1..Len(s) : s[i] = tok}) - 1)
    ELSE s

CleanLink(s) == SplitFirst(SplitFirst(StripBrackets(s), "|"), "#")
WithMd(s) == IF EndsWith(s, <<".md">>) THEN s ELSE s \o <<".md">>

----------------------------------------------------------------------------
(* The document the host renders: target elements of every surface.       *)
(*   row  .nav-file-title-content of a file row with data-path             *)
(*   img  .nav-file-title of an attachment (data-path not ending in .md)   *)
(*   oth  .tree-item-self of another pane, without data-path               *)
(*   tab  .workspace-tab-header-inner-title of a markdown tab header       *)
(*   sug  .suggestion-title of a .suggestion-item of the quick switcher    *)
(*   lsug .suggestion-item of the editor's link suggester                  *)
(*   bl   .search-result-file-title in the backlink pane                   *)
(*   bs   .bases-cell-file in a Bases view                                 *)
(*   lnk  .internal-link in the editor                                     *)

\* every element displays a.md until the host makes it display another note
ShowsA == [e \in Elements |-> PathA]

\* how the host writes a reference to a note into an attribute or a text:
\* its base name, its path without or with the extension, a display label,
\* or the name of no note; wrapped in [[ ]], with an alias after "|", with a
\* heading after "#" inside or outside the brackets, with blanks around it
Link(to, wrap, alias, heading, pad) ==
    [to |-> to, wrap |-> wrap, alias |-> alias, heading |-> heading, pad |-> pad]
NoLink == Link("absent", FALSE, FALSE, "none", FALSE)
Plain(to) == Link(to, FALSE, FALSE, "none", FALSE)

LinkText(p, f) ==
    LET target == CASE f.to = "name"  -> basename(p)
                    [] f.to = "path"  -> SubSeq(p, 1, Len(p) - 1)
                    [] f.to = "file"  -> p
                    [] f.to = "label" -> <<"A">>
                    [] f.to = "none"  -> <<"zz">>
                    [] f.to = "absent" -> <<>>
        inner == target \o (IF f.heading = "in" THEN <<"#", "h">> ELSE <<>>)
                        \o (IF f.alias THEN <<"|", "A">> ELSE <<>>)
        wrapped == IF f.wrap THEN <<"[[">> \o inner \o <<"]]">> ELSE inner
        full == wrapped \o (IF f.heading = "out" THEN <<"#", "h">> ELSE <<>>)
    IN IF f.pad THEN <<" ">> \o full \o <<" ">> ELSE full

\* the attributes and text of an element: data-path present or not, the
\* text content, the href and data-href attributes
Layout(data, text, href, dataHref) ==
    [data |-> data, text |-> text, href |-> href, dataHref |-> dataHref]

\* the forms in which the host usually renders the elements
StdForms ==
    [e \in Elements |->
        CASE e = "row" -> Layout(TRUE, Plain("name"), NoLink, NoLink)
          [] e = "sug" -> Layout(FALSE, Link("name", FALSE, FALSE, "none", TRUE),
                                 NoLink, NoLink)
          [] e = "bs"  -> Layout(FALSE, Plain("name"),
                                 Link("name", TRUE, TRUE, "none", FALSE), NoLink)
          [] e = "lnk" -> Layout(FALSE, Plain("label"), NoLink,
                                 Link("name", FALSE, FALSE, "in", FALSE))
          [] OTHER     -> Layout(FALSE, Plain("name"), NoLink, NoLink)]

\* attributes and text the host gives element e when it renders it in form
\* l for the note p
Render(e, p, l) ==
    CASE e = "img" ->
           \* the explorer row of an attachment
           [dataPath |-> Str(<<"c", ".png">>), parentPath |-> Null,
            text |-> Str(<<"c">>), href |-> Null,
            dataHref |-> Undef, aria |-> Null]
      [] e = "oth" ->
           \* a .tree-item-self of another pane (outline, tags): no data-path
           [dataPath |-> Undef, parentPath |-> Null,
            text |-> Str(<<"a">>), href |-> Null,
            dataHref |-> Undef, aria |-> Null]
      [] OTHER ->
           [dataPath |-> IF l.data THEN Str(p) ELSE Undef,
            parentPath |-> Null,
            text |-> Str(LinkText(p, l.text)),
            href |-> IF l.href.to = "absent" THEN Null
                     ELSE Str(LinkText(p, l.href)),
            dataHref |-> IF l.dataHref.to = "absent" THEN Undef
                         ELSE Str(LinkText(p, l.dataHref)),
            aria |-> IF e = "tab" THEN Str(basename(p)) ELSE Null]

\* the document when the elements display the notes sh in the usual forms
StdLayout(sh) == [e \in Elements |-> Render(e, sh[e], StdForms[e])]

\* attributes and text of element e as the observers read them
ElemInfo(e) == layout[e]

\* querySelectorAll results of each observer's refresh, in document order
Targets(kind) ==
    CASE kind = "fe"  -> <<"row", "img", "oth">>
      [] kind = "tab" -> <<"tab">>
      [] kind = "sug" -> <<"sug", "lsug">>
      [] kind = "bl"  -> <<"bl">>
      [] kind = "bs"  -> <<"bs">>
      [] kind = "ed"  -> <<"lnk">>

\* elements inside the root container(s) each observer's mutation watch is on
Root(kind) ==
    CASE kind = "fe"  -> {"row", "img"}                       \* .nav-files-container
      [] kind = "tab" -> {"tab"}                              \* tab header containers
      [] kind = "sug" -> Elements                             \* document.body
      [] kind = "bl"  -> {"bl"}                               \* backlink panes
      [] kind = "bs"  -> Elements \ {"sug", "lsug"}            \* .workspace
      [] kind = "ed"  -> {"lnk"}                              \* first leaf content

Kinds == <<"fe", "tab", "sug", "bl", "bs", "ed">>
AllSurfaces == {Kinds[j] : j \in DOMAIN Kinds}

\* element e is in the document: the rows of the tree view, the tab headers,
\* the backlink results and the editor's links are there when their surface
\* is; the other elements are there throughout
InDocument(e) ==
    CASE e \in {"row", "img"} -> "fe" \in present
      [] e = "tab" -> "tab" \in present
      [] e = "bl"  -> "bl" \in present
      [] e = "lnk" -> "ed" \in present
      [] OTHER     -> TRUE

----------------------------------------------------------------------------
(* Observers.  The operators below transform a record w of everything a    *)
(* handler can change: cache, dom, the applicator's probe state (chk, ref),*)
(* the observer instances, the host's event registrations, the active      *)
(* observer list, and what the handler read, scanned and ran.              *)

NewObserver(kind) ==
    [kind |-> kind, hasObs |-> FALSE, observing |-> FALSE, stopped |-> FALSE,
     isRefreshing |-> FALSE, pend |-> {}]

\* a child-list mutation under element e queues a record (added node `node`)
\* on every connected mutation watch whose root contains e
RECURSIVE Notify(_, _, _)
Notify(ins, e, node) ==
    IF ins = <<>> THEN <<>>
    ELSE LET o == Head(ins)
             o1 == IF o.observing /\ e \in Root(o.kind)
                   THEN [o EXCEPT !.pend = o.pend \cup {node}] ELSE o
         IN <<o1>> \o Notify(Tail(ins), e, node)

Scan(w, e) == [w EXCEPT !.scanned = @ \cup {e}]

\* one entry of w.steps, the order in which a handler did things: observer
\* i's refresh() entered, its guard raised or lowered, its event
\* subscriptions made, its mutation watch connected; inst 0 with what =
\* "write" is a child-list mutation made by applyStyle
Step(i, what) == [inst |-> i, what |-> what]

\* this.plugin.styleCache.getStyle(p) made by a handler
Read(w, p) ==
    [w EXCEPT !.cache = getStyleCache(w.cache, p),
              !.reads = @ \cup {[path |-> p, result |-> getStyle(w.cache, p)]}]

\* w once applyStyle has returned r for element e; an icon write is a
\* child-list mutation under e
Applied(w, e, r) ==
    [w EXCEPT !.dom[e] = r.el, !.chk = r.checked, !.ref = r.ref,
              !.insts = IF r.writes = {} THEN w.insts
                        ELSE Notify(w.insts, e, "icon"),
              !.steps = IF r.writes = {} THEN w.steps
                        ELSE Append(w.steps, Step(0, "write"))]

\* this.plugin.styleApplicator.applyStyle(element, filePath)
ApplyW(w, e, p) ==
    Applied(Read(w, p), e,
            applyStyle(w.dom[e], getStyle(w.cache, p), w.chk, w.ref))

styleFileExplorerItem_SkipStyled(w, e) ==
    LET filePath == ElemInfo(e).dataPath IN
    IF Truthy(filePath) /\ EndsWith(filePath.s, <<".md">>) /\ ~w.dom[e].inSet
    THEN ApplyW(w, e, filePath.s) ELSE w

styleFileExplorerItem(w, e) ==
    LET filePath == ElemInfo(e).dataPath IN
    IF Truthy(filePath) /\ EndsWith(filePath.s, <<".md">>)
    THEN ApplyW(w, e, filePath.s) ELSE w

styleTabHeader_NoSkip(w, e) ==
    LET ariaLabel == ElemInfo(e).aria IN
    IF ~Truthy(ariaLabel) THEN w
    ELSE LET file == FindFile(ariaLabel.s, <<>>) IN
         IF file = Null THEN w
         ELSE LET w1 == Read(w, file.s)
              IN ApplyW([w1 EXCEPT !.dom[e].styledFor = ariaLabel], e, file.s)

styleTabHeader(w, e) ==
    LET ariaLabel == ElemInfo(e).aria IN
    IF ~Truthy(ariaLabel) THEN w
    ELSE LET file == FindFile(ariaLabel.s, <<>>) IN
         IF file = Null THEN w
         ELSE LET style == getStyle(w.cache, file.s)
                  w1 == Read(w, file.s)
                  hasIconContainer == HasIcon(w.dom[e].children)
                  needsIcon == style.icon # Null
              IN IF w.dom[e].styledFor = ariaLabel /\ ~(needsIcon /\ ~hasIconContainer)
                 THEN w1
                 ELSE ApplyW([w1 EXCEPT !.dom[e].styledFor = ariaLabel], e, file.s)

SuggesterPath_ExactOnly(e) ==
    LET info == ElemInfo(e) IN
    IF Truthy(info.dataPath) THEN info.dataPath
    ELSE IF Truthy(info.text)
    THEN getAbstractFileByPath(WithMd(Trim(info.text.s)))
    ELSE Null

\* path resolution of SuggesterObserver.styleSuggestionItem
SuggesterPath(e) ==
    LET info == ElemInfo(e) IN
    IF Truthy(info.dataPath) THEN info.dataPath
    ELSE IF Truthy(info.text)
    THEN LET titleText == Trim(info.text.s)
             possiblePath == WithMd(titleText)
             file == getAbstractFileByPath(possiblePath)
         IN IF file # Null THEN file ELSE FindFile(titleText, possiblePath)
    ELSE Null

styleSuggestionItem_MarkFirst(w, e) ==
    IF w.dom[e].styled THEN w
    ELSE LET filePath == SuggesterPath(e)
             w1 == [w EXCEPT !.dom[e].styled = TRUE]
         IN IF Truthy(filePath) THEN ApplyW(w1, e, filePath.s) ELSE w1

styleSuggestionItem(w, e) ==
    IF w.dom[e].styled THEN w
    ELSE LET filePath == SuggesterPath(e) IN
         IF Truthy(filePath)
         THEN ApplyW([w EXCEPT !.dom[e].styled = TRUE], e, filePath.s)
         ELSE w

BacklinksResolveFilePath(text) ==
    LET t == WithMd(text)
        file == getAbstractFileByPath(t)
    IN IF file # Null THEN file
       ELSE FindFile(SubSeq(t, 1, Len(t) - 1), <<>>)

BacklinkPath(e) ==
    LET info == ElemInfo(e)
        fromAttr == IF Truthy(info.dataPath) THEN info.dataPath
                    ELSE IF Truthy(info.parentPath) THEN info.parentPath
                    ELSE Null
    IN IF Truthy(fromAttr) THEN fromAttr
       ELSE IF Truthy(info.text) /\ Trim(info.text.s) # <<>>
       THEN BacklinksResolveFilePath(Trim(info.text.s))
       ELSE Null

styleBacklinkItem(w, e) ==
    IF w.dom[e].styled THEN w
    ELSE LET filePath == BacklinkPath(e) IN
         IF Truthy(filePath)
         THEN ApplyW([w EXCEPT !.dom[e].styled = TRUE], e, filePath.s)
         ELSE w

BasesResolveFilePath(linkText) ==
    LET cleaned == WithMd(CleanLink(linkText))
        file == getAbstractFileByPath(cleaned)
    IN IF file # Null THEN file ELSE getFirstLinkpathDest(CleanLink(linkText))

BasesPath(e) ==
    LET info == ElemInfo(e) IN
    IF Truthy(info.dataPath) THEN info.dataPath
    ELSE IF Truthy(info.href) THEN BasesResolveFilePath(info.href.s)
    ELSE IF Truthy(info.text) THEN BasesResolveFilePath(Trim(info.text.s))
    ELSE Null

styleBasesLink(w, e) ==
    IF w.dom[e].styled THEN w
    ELSE LET filePath == BasesPath(e) IN
         IF Truthy(filePath)
         THEN ApplyW([w EXCEPT !.dom[e].styled = TRUE], e, filePath.s)
         ELSE w

EditorLinkPath(e) ==
    LET info == ElemInfo(e)
        linkTarget == IF Truthy(info.dataHref) THEN info.dataHref
                      ELSE IF Truthy(info.href) THEN info.href
                      ELSE info.text
    IN IF ~Truthy(linkTarget) THEN Null
       ELSE getFirstLinkpathDest(CleanLink(linkTarget.s))

styleInternalLink_ApplyStyle(w, e) ==
    LET file == EditorLinkPath(e) IN
    IF file = Null THEN w ELSE ApplyW(w, e, file.s)

styleInternalLink(w, e) ==
    LET file == EditorLinkPath(e) IN
    IF file = Null THEN w
    ELSE LET style == getStyle(w.cache, file.s)
             w1 == Read(w, file.s)
         IN IF Truthy(style.color)
            THEN [w1 EXCEPT !.dom[e].color = style.color] ELSE w1

StyleItem(kind, w, e) ==
    CASE kind = "fe"  -> styleFileExplorerItem(w, e)
      [] kind = "tab" -> styleTabHeader(w, e)
      [] kind = "sug" -> styleSuggestionItem(w, e)
      [] kind = "bl"  -> styleBacklinkItem(w, e)
      [] kind = "bs"  -> styleBasesLink(w, e)
      [] kind = "ed"  -> styleInternalLink(w, e)

\* the forEach of a refresh over its query result
RECURSIVE StyleEach(_, _, _)
StyleEach(kind, w, es) ==
    IF es = <<>> THEN w
    ELSE StyleEach(kind, StyleItem(kind, Scan(w, Head(es)), Head(es)), Tail(es))

\* what a refresh queries, in order: BasesObserver.refresh goes over the views'
\* links (styleBasesView) and then over the file cells
Passes(k) ==
    SelectSeq(IF k = "bs" THEN Targets(k) \o Targets(k) ELSE Targets(k), InDocument)

\* before the forEach: the tab observer raises its guard; the backlinks
\* observer disconnects (the queued records are dropped) and observes the
\* panes again
BeforeRefresh(w, i) ==
    CASE w.insts[i].kind = "tab" ->
            [w EXCEPT !.insts[i].isRefreshing = TRUE,
                      !.steps = Append(w.steps, Step(i, "guard.set"))]
      [] w.insts[i].kind = "bl" /\ w.insts[i].hasObs ->
            [w EXCEPT !.insts[i].pend = {}, !.insts[i].observing = ("bl" \in present)]
      [] OTHER -> w

\* after the forEach: finally { this.isRefreshing = false }
AfterRefresh(w, i) ==
    IF w.insts[i].kind = "tab"
    THEN [w EXCEPT !.insts[i].isRefreshing = FALSE,
                   !.steps = Append(w.steps, Step(i, "guard.clear"))]
    ELSE w

\* the call is recorded in w.ran, and in w.stale when the observer was stopped
LogRefresh(w, i) ==
    [w EXCEPT !.ran = Append(@, i),
              !.stale = IF w.insts[i].stopped THEN @ \cup {i} ELSE @,
              !.steps = Append(w.steps, Step(i, "refresh"))]

refresh_NoGuard(w, i) ==
    AfterRefresh(StyleEach(w.insts[i].kind,
                           BeforeRefresh(LogRefresh(w, i), i),
                           Passes(w.insts[i].kind)), i)

\* observer i's refresh()
refresh(w, i) ==
    IF w.insts[i].kind = "tab" /\ w.insts[i].isRefreshing THEN LogRefresh(w, i)
    ELSE AfterRefresh(StyleEach(w.insts[i].kind,
                                BeforeRefresh(LogRefresh(w, i), i),
                                Passes(w.insts[i].kind)), i)

\* refresh() in which a host call made for the k-th element of the forEach
\* raises, without the finally block
refreshThrows_NoFinally(w, i, k) ==
    IF w.insts[i].kind = "tab" /\ w.insts[i].isRefreshing THEN LogRefresh(w, i)
    ELSE StyleEach(w.insts[i].kind, BeforeRefresh(LogRefresh(w, i), i),
                   SubSeq(Passes(w.insts[i].kind), 1, k - 1))

\* refresh() in which a host call made for the k-th element of the forEach
\* raises: the elements before it are styled, finally lowers the guard and
\* the exception leaves refresh() and the handler that called it
refreshThrows(w, i, k) ==
    IF w.insts[i].kind = "tab" /\ w.insts[i].isRefreshing THEN LogRefresh(w, i)
    ELSE AfterRefresh(StyleEach(w.insts[i].kind, BeforeRefresh(LogRefresh(w, i), i),
                                SubSeq(Passes(w.insts[i].kind), 1, k - 1)), i)

RECURSIVE RefreshEach(_, _)
RefreshEach(w, is) ==
    IF is = <<>> THEN w ELSE RefreshEach(refresh(w, Head(is)), Tail(is))

refreshAllObservers(w) == RefreshEach(w, w.observers)

Register(w, i, evs) ==
    [w EXCEPT !.regs = @ \o [n \in 1..Len(evs) |-> [inst |-> i, ev |-> evs[n]]],
              !.steps = IF evs = <<>> THEN w.steps
                        ELSE Append(w.steps, Step(i, "register"))]

Observe_Unchecked(w, i) ==
    [w EXCEPT !.insts[i].hasObs = TRUE, !.insts[i].observing = TRUE,
              !.steps = Append(w.steps, Step(i, "observe"))]

\* new MutationObserver(...), and observe(root) on the root container(s) the
\* document has
Observe(w, i) ==
    [w EXCEPT !.insts[i].hasObs = TRUE,
              !.insts[i].observing = (w.insts[i].kind \in present),
              !.steps = Append(w.steps, Step(i, "observe"))]

\* the workspace events observer kind k subscribes to in start()
Events(k) ==
    CASE k = "tab" -> <<"layout-change", "active-leaf-change", "file-open">>
      [] k = "bl"  -> <<"layout-change">>
      [] k = "bs"  -> <<"layout-change", "active-leaf-change">>
      [] k = "ed"  -> <<"active-leaf-change">>
      [] OTHER     -> <<>>

start_ObserveFirst(w, i) ==
    LET w1 == Observe(Register(w, i, Events(w.insts[i].kind)), i)
    IN IF w.insts[i].kind = "sug" THEN w1 ELSE refresh(w1, i)

\* observer i's start(): every observer but the suggester's refreshes first
start(w, i) ==
    Observe(Register(IF w.insts[i].kind = "sug" THEN w ELSE refresh(w, i),
                     i, Events(w.insts[i].kind)), i)

\* observer i's stop()
stop(w, i) ==
    IF w.insts[i].hasObs
    THEN [w EXCEPT !.insts[i].hasObs = FALSE, !.insts[i].observing = FALSE,
                   !.insts[i].pend = {}, !.insts[i].stopped = TRUE]
    ELSE [w EXCEPT !.insts[i].stopped = TRUE]

RECURSIVE StopEach(_, _)
StopEach(w, is) ==
    IF is = <<>> THEN w ELSE StopEach(stop(w, Head(is)), Tail(is))

Enabled(st, kind) ==
    CASE kind = "fe"  -> st.enableFileExplorer
      [] kind = "tab" -> st.enableTabHeader
      [] kind = "sug" -> st.enableQuickSwitcher \/ st.enableSuggester
      [] kind = "bl"  -> st.enableBacklinks
      [] kind = "bs"  -> st.enableBases
      [] kind = "ed"  -> st.enableEditorLinks

RECURSIVE StartEach(_, _)
StartEach(w, ks) ==
    IF ks = <<>> THEN w
    ELSE IF ~Enabled(settings, Head(ks)) THEN StartEach(w, Tail(ks))
    ELSE LET i == Len(w.insts) + 1
             w1 == start([w EXCEPT !.insts = Append(@, NewObserver(Head(ks)))], i)
         IN StartEach([w1 EXCEPT !.observers = Append(@, i)], Tail(ks))

startObservers(w) == refreshAllObservers(StartEach(w, Kinds))

\* a pending setTimeout callback: the deferred startObservers, or a deferred
\* refresh of observer inst
StartTimer == [kind |-> "start", inst |-> 0, delay |-> 500]
RefreshTimer(i, d) == [kind |-> "refresh", inst |-> i, delay |-> d]

\* the layout is ready and the index resolved: startObservers is scheduled
initializeObservers(w) == [w EXCEPT !.timers = Append(@, StartTimer)]

reinitializeObservers_KeepCache(w) ==
    LET w1 == StopEach(w, w.observers) IN
    initializeObservers([w1 EXCEPT !.observers = <<>>])

reinitializeObservers(w) ==
    LET w1 == StopEach(w, w.observers) IN
    initializeObservers([w1 EXCEPT !.observers = <<>>, !.cache = clear(w1.cache)])

\* observer i's mutation callback over the records `nodes`
RECURSIVE StyleAdded(_, _, _)
StyleAdded(kind, w, nodes) ==
    IF nodes = {} THEN w
    ELSE LET n == CHOOSE x \in nodes : TRUE
             isTarget == \E j \in 1..Len(Targets(kind)) : Targets(kind)[j] = n
         IN StyleAdded(kind, IF isTarget THEN StyleItem(kind, w, n) ELSE w,
                       nodes \ {n})

mutationCallback(w, i, nodes) ==
    LET k == w.insts[i].kind IN
    CASE k \in {"fe", "sug"} -> StyleAdded(k, w, nodes)
      [] k = "tab" /\ w.insts[i].isRefreshing -> w
      [] OTHER -> refresh(w, i)

----------------------------------------------------------------------------
(* Idle values of the parts a specification does not exercise *)

NoGet == [valid |-> FALSE, path |-> PathA, result |-> NullStyle,
          first |-> FALSE, metaAtCall |-> NoFile]
NoCall == [op |-> "none", e |-> "row", p |-> PathA, pre |-> PristineEl,
           post |-> PristineEl, writes |-> {}, again |-> FALSE,
           afterApply |-> FALSE, style |-> NullStyle, calls |-> {},
           service |-> FALSE]

CacheHistIdle ==
    /\ fresh = [p \in Paths |-> TRUE]
    /\ firstMeta = [p \in Paths |-> NoFile]
    /\ lastGet = NoGet

ApplicatorIdle ==
    /\ dom = PristineDom
    /\ nnChecked = FALSE
    /\ nnRef = FALSE
    /\ hist = NoCall

NoChange == [valid |-> FALSE, path |-> PathA, old |-> Absent, reads |-> {},
             refreshed |-> <<>>, active |-> <<>>, scanned |-> {},
             pre |-> PristineDom]
NoRun == [op |-> "none"]

\* the plugin before onload has run
SystemIdle ==
    /\ loaded = FALSE
    /\ observers = <<>>
    /\ insts = <<>>
    /\ regs = <<>>
    /\ timers = <<>>
    /\ savesPending = 0
    /\ saves = 0
    /\ pendingChanged = {}
    /\ quiet = FALSE
    /\ hostSteps = 0
    /\ tick = FALSE
    /\ changedLog = NoChange
    /\ staleRan = {}
    /\ handlerLog = NoRun
    /\ shows = ShowsA
    /\ layout = StdLayout(shows)
    /\ present = AllSurfaces

----------------------------------------------------------------------------
(* CacheSpec: the cache API called in any order while the host index changes *)

\* metadata entries the host index takes in CacheSpec
CacheMetaEntries ==
    {NoFile, NoFM, FM(Fields(Red, Star)), FM(Fields(Blue, Undef))}

CInit ==
    /\ meta \in [Paths -> CacheMetaEntries]
    /\ settings = DEFAULT_SETTINGS
    /\ cache = EmptyCache
    /\ nnInstalled = FALSE
    /\ nnMode = "ok"
    /\ CacheHistIdle
    /\ ApplicatorIdle
    /\ SystemIdle

\* the host index changes the entry of one file
CSetMeta(p, m) ==
    /\ meta[p] # m
    /\ meta' = [meta EXCEPT ![p] = m]
    /\ UNCHANGED <<settings, cache, nnVars, dom, cacheHist, hist, sysVars>>

CGetStyle(p) ==
    /\ cache' = getStyleCache(cache, p)
    /\ lastGet' = [valid |-> TRUE, path |-> p, result |-> getStyle(cache, p),
                   first |-> fresh[p], metaAtCall |-> meta[p]]
    /\ firstMeta' = IF fresh[p] THEN [firstMeta EXCEPT ![p] = meta[p]] ELSE firstMeta
    /\ fresh' = [fresh EXCEPT ![p] = FALSE]
    /\ UNCHANGED <<meta, settings, nnVars, dom, hist, sysVars>>

CInvalidate(p) ==
    /\ cache' = invalidate(cache, p)
    /\ fresh' = [fresh EXCEPT ![p] = TRUE]
    /\ UNCHANGED <<meta, settings, nnVars, dom, firstMeta, lastGet, hist, sysVars>>

CClear ==
    /\ cache' = clear(cache)
    /\ fresh' = [p \in Paths |-> TRUE]
    /\ UNCHANGED <<meta, settings, nnVars, dom, firstMeta, lastGet, hist, sysVars>>

CNext ==
    \/ \E p \in Paths, m \in CacheMetaEntries : CSetMeta(p, m)
    \/ \E p \in Paths : CGetStyle(p)
    \/ \E p \in Paths : CInvalidate(p)
    \/ CClear

CacheSpec == CInit /\ [][CNext]_vars

\* C1: getStyle(p) returns the style of the metadata as it stood at the first
\* getStyle(p) since the last invalidate(p) / clear() / creation, whatever the
\* metadata has become since; the first call after an invalidation returns the
\* style of the metadata current at that call.
CacheCorrectness ==
    lastGet.valid =>
        /\ lastGet.result = computeStyleFrom(firstMeta[lastGet.path], settings)
        /\ lastGet.first =>
              lastGet.result = computeStyleFrom(lastGet.metaAtCall, settings)

\* a memoized answer was returned although the metadata had changed
CacheCorrectnessWitness ==
    /\ lastGet.valid
    /\ ~lastGet.first
    /\ computeStyleFrom(lastGet.metaAtCall, settings) # lastGet.result
    /\ lastGet.result # NullStyle

----------------------------------------------------------------------------
(* ApplicatorSpec: applyStyle / removeStyle called in any order on an element *)

ApplicatorElements == {"row"}

\* metadata entries the host index takes in ApplicatorSpec
ApplicatorMetaEntries ==
    {NoFM, FM(Fields(Red, Star)), FM(Fields(Undef, PhBridge)),
     FM(Fields(EmptyStr, UnknownNs)), FM(Fields(Blue, Undef))}

AInit ==
    /\ meta \in [Paths -> ApplicatorMetaEntries]
    /\ settings = DEFAULT_SETTINGS
    /\ cache = EmptyCache
    /\ nnInstalled \in BOOLEAN
    /\ nnMode \in NNModes
    /\ CacheHistIdle
    /\ ApplicatorIdle
    /\ SystemIdle

AApply(e, p) ==
    LET style == getStyle(cache, p)
        r == applyStyle(dom[e], style, nnChecked, nnRef)
    IN /\ cache' = getStyleCache(cache, p)
       /\ dom' = [dom EXCEPT ![e] = r.el]
       /\ nnChecked' = r.checked
       /\ nnRef' = r.ref
       /\ hist' = [op |-> "apply", e |-> e, p |-> p, pre |-> dom[e],
                   post |-> r.el, writes |-> r.writes,
                   again |-> (hist.op = "apply" /\ hist.e = e /\ hist.p = p),
                   afterApply |-> FALSE, style |-> style, calls |-> r.calls,
                   service |-> r.ref]
       /\ UNCHANGED <<meta, settings, nnInstalled, nnMode, cacheHist, sysVars>>

ARemove(e) ==
    /\ dom' = [dom EXCEPT ![e] = removeStyle(dom[e])]
    /\ hist' = [op |-> "remove", e |-> e, p |-> hist.p, pre |-> dom[e],
                post |-> removeStyle(dom[e]), writes |-> {},
                again |-> FALSE,
                afterApply |-> (hist.op = "apply" /\ hist.e = e),
                style |-> NullStyle, calls |-> {}, service |-> FALSE]
    /\ UNCHANGED <<meta, settings, cache, nnVars, cacheHist, sysVars>>

\* the frontmatter of a file changes and its cache entry is invalidated
AMetaChanged(p, m) ==
    /\ meta[p] # m
    /\ meta' = [meta EXCEPT ![p] = m]
    /\ cache' = invalidate(cache, p)
    /\ hist' = [hist EXCEPT !.op = "env", !.again = FALSE, !.afterApply = FALSE]
    /\ UNCHANGED <<settings, nnVars, dom, cacheHist, sysVars>>

ANext ==
    \/ \E e \in ApplicatorElements, p \in Paths : AApply(e, p)
    \/ \E e \in ApplicatorElements : ARemove(e)
    \/ \E p \in Paths, m \in ApplicatorMetaEntries : AMetaChanged(p, m)

ApplicatorSpec == AInit /\ [][ANext]_vars

IconContent(el) == el.children[FirstIcon(el.children)].content

\* C8: a second applyStyle(element, path), with nothing changed in between,
\* leaves the element's DOM state as the first call left it.
ApplyIdempotentState ==
    (hist.op = "apply" /\ hist.again) => hist.post = hist.pre

ApplyIdempotentStateWitness ==
    /\ hist.op = "apply" /\ hist.again
    /\ hist.post.color = Red
    /\ HasIcon(hist.post.children)
    /\ IconContent(hist.post) # Blank

\* C9 as stated: a second applyStyle performs no child-list mutation, also for
\* a file that has an icon.
ApplyNoSecondWrite ==
    (hist.op = "apply" /\ hist.again) => hist.writes = {}

\* C9 amended: a second applyStyle inserts and removes no icon container; its
\* only child-list mutations are the clearing and the re-rendering of the
\* existing container's content, and they happen exactly when the file has an
\* icon whose render produces content.
ApplySecondWriteIsRerender ==
    (hist.op = "apply" /\ hist.again) =>
        hist.writes =
            IF Truthy(hist.style.icon) /\ HasIcon(hist.post.children)
               /\ IconContent(hist.post) # Blank
            THEN {"empty", "render"} ELSE {}

ApplySecondWriteWitness ==
    /\ hist.op = "apply" /\ hist.again
    /\ hist.writes = {"empty", "render"}

\* C10: applyStyle followed by removeStyle leaves the element unstyled: inline
\* color empty, no icon container among the children, no recorded-color
\* marker, not in the styled set.
ApplyRemoveRoundTrip ==
    (hist.op = "remove" /\ hist.afterApply) =>
        /\ hist.post.color = EmptyStr
        /\ hist.post.children = <<TextNode>>
        /\ hist.post.marker = Undef
        /\ ~hist.post.inSet

ApplyRemoveRoundTripWitness ==
    /\ hist.op = "remove" /\ hist.afterApply
    /\ hist.pre.marker = Red
    /\ HasIcon(hist.pre.children)
    /\ hist.pre.inSet

\* C11: applyStyle for a style without a color writes neither the inline color
\* nor the recorded-color marker; for a style without an icon it makes no
\* child-list mutation and leaves the children as they were; for a style with
\* neither field it leaves the element exactly as it was, its membership of
\* the styled set included.
ApplyStyleFrame ==
    hist.op = "apply" =>
        /\ ~Truthy(hist.style.color) =>
              /\ hist.post.color = hist.pre.color
              /\ hist.post.marker = hist.pre.marker
        /\ ~Truthy(hist.style.icon) =>
              /\ hist.post.children = hist.pre.children
              /\ hist.writes = {}
        /\ (~Truthy(hist.style.color) /\ ~Truthy(hist.style.icon)) =>
              hist.post = hist.pre

\* a style with neither field was applied to an element that carries the
\* color and the icon container of an earlier call
ApplyStyleFrameWitness ==
    /\ hist.op = "apply"
    /\ ~Truthy(hist.style.color) /\ ~Truthy(hist.style.icon)
    /\ hist.pre.color = Red
    /\ HasIcon(hist.pre.children)

\* an applyStyle call that went through applyIcon
IconApplied == hist.op = "apply" /\ Truthy(hist.style.icon)
CalledService == \E c \in hist.calls : c.by = "nn"
CalledBuiltin == \E c \in hist.calls : c.by = "setIcon"
Namespaced(iconId) == Includes(iconId, ":")
\* the plugin of the third-party service is not installed, or it exposes no
\* icon service
ServiceUnavailable == ~hist.service \/ nnMode = "noservice"
ServiceRendered ==
    IconContent(hist.post) # Blank /\ IconContent(hist.post).by = "nn"

RenderOf(iconId) ==
    applyIcon(PristineEl, iconId, nnChecked, nnRef).el.children[1].content

\* C24: after any sequence of applyStyle calls the element has at most one
\* icon container and it is the first child; after a call whose style has an
\* icon it has exactly one, and the container's content is the render of that
\* icon alone, whatever earlier calls had rendered into it.
OneIconContainer ==
    hist.op = "apply" =>
        /\ NumIcons(hist.post.children) <= 1
        /\ HasIcon(hist.post.children) => IsIcon(hist.post.children[1])
        /\ Truthy(hist.style.icon) =>
              /\ NumIcons(hist.post.children) = 1
              /\ IconContent(hist.post) = RenderOf(hist.style.icon.s)

\* the container held the render of one icon and the call rendered another
\* icon into it
OneIconContainerWitness ==
    /\ hist.op = "apply"
    /\ HasIcon(hist.pre.children)
    /\ IconContent(hist.pre) = Rendered("setIcon", <<"lucide-", "star">>)
    /\ IconContent(hist.post) = Rendered("nn", <<"phosphor", ":", "bridge">>)
    /\ Len(hist.post.children) = 2

----------------------------------------------------------------------------
(* Spec: the loaded plugin on the host's event loop.  Every handler is one *)
(* action; mutation callbacks are microtasks, so no other handler starts   *)
(* while a connected mutation watch has records queued.                    *)

MaxSaves == 1       \* settings saves in one run
MaxTimers == 3      \* pending setTimeout callbacks
MaxHostSteps == 3   \* host-initiated tasks (edits, events, re-renders, saves, unload) in one run

\* frontmatter the host index takes for a.md in Spec
SysMetaEntries ==
    {FM(Fields(Red, Star)), FM(Fields(Undef, Star)), FM(Fields(Blue, Undef))}
SettingsChoices == {DEFAULT_SETTINGS}
\* elements the host re-renders
RerenderElements == {"row", "sug"}

World ==
    [cache |-> cache, dom |-> dom, chk |-> nnChecked, ref |-> nnRef,
     insts |-> insts, regs |-> regs, observers |-> observers,
     timers |-> timers, reads |-> {}, scanned |-> {}, stale |-> {},
     ran |-> <<>>, steps |-> <<>>]

Commit(w) ==
    /\ cache' = w.cache
    /\ dom' = w.dom
    /\ nnChecked' = w.chk
    /\ nnRef' = w.ref
    /\ insts' = w.insts
    /\ regs' = w.regs
    /\ observers' = w.observers
    /\ timers' = w.timers
    /\ staleRan' = w.stale

\* no microtask is queued and no host task is in the middle of its triggers
NoPending == pendingChanged = {} /\ \A i \in DOMAIN insts : insts[i].pend = {}
envFixed == <<nnInstalled, nnMode, cacheHist, hist, handlerLog, shows, layout, present>>

\* state after onload: components built, the deferred start scheduled
SInit ==
    /\ meta \in [Paths -> SysMetaEntries \cup {NoFM}]
    /\ meta[PathA] \in SysMetaEntries
    /\ meta[PathB] = NoFM
    /\ settings \in SettingsChoices
    /\ cache = EmptyCache
    /\ nnInstalled = FALSE
    /\ nnMode = "ok"
    /\ CacheHistIdle
    /\ ApplicatorIdle
    /\ loaded = TRUE
    /\ observers = <<>>
    /\ insts = <<>>
    /\ regs = <<>>
    /\ timers = <<StartTimer>>
    /\ savesPending = 0
    /\ saves = 0
    /\ pendingChanged = {}
    /\ quiet = FALSE
    /\ hostSteps = 0
    /\ tick = FALSE
    /\ changedLog = NoChange
    /\ staleRan = {}
    /\ handlerLog = NoRun
    /\ shows = ShowsA
    /\ layout = StdLayout(shows)
    /\ present = AllSurfaces

\* the host starts a task of its own: nothing of the previous task is left to
\* run, the plugin is loaded, and the run has host tasks left
HostActs == NoPending /\ ~quiet /\ loaded /\ hostSteps < MaxHostSteps

\* timers are kept in scheduling order; one can be the next to fire unless
\* a timer scheduled before it has a delay that is not longer
Due(n) == \A m \in 1..(n - 1) : timers[m].delay > timers[n].delay

\* setTimeout(() => this.startObservers(), 500) fires
StartTimerFires(n) ==
    /\ NoPending
    /\ timers[n].kind = "start" /\ Due(n)
    /\ Commit(startObservers([World EXCEPT !.timers = RemoveAt(timers, n)]))
    /\ changedLog' = NoChange
    /\ UNCHANGED <<meta, settings, loaded, savesPending, saves, pendingChanged,
                   quiet, hostSteps, tick, envFixed>>

onMetadataChanged_RefreshFirst(w, p) ==
    LET w1 == refreshAllObservers(w) IN [w1 EXCEPT !.cache = invalidate(w1.cache, p)]

\* metadataCache.on("changed") handler
onMetadataChanged(w, p) ==
    refreshAllObservers([w EXCEPT !.cache = invalidate(w.cache, p)])

\* the host index re-parses file p (new entry m); in the same task it
\* triggers "changed" (OnMetadataChanged is the next step)
HostEditsFrontmatter(p, m) ==
    /\ HostActs
    /\ hostSteps' = hostSteps + 1
    /\ meta[p] # m
    /\ meta' = [meta EXCEPT ![p] = m]
    /\ pendingChanged' = pendingChanged \cup {p}
    /\ changedLog' = NoChange
    /\ staleRan' = {}
    /\ UNCHANGED <<settings, cache, nnChecked, nnRef, dom, loaded, observers,
                   insts, regs, timers, savesPending, saves, quiet, tick, envFixed>>

\* the plugin's metadataCache.on("changed") handler runs for file p
OnMetadataChanged(p) ==
    /\ p \in pendingChanged
    /\ pendingChanged' = pendingChanged \ {p}
    /\ LET w == onMetadataChanged(World, p) IN
       /\ Commit(w)
       /\ changedLog' =
             [valid |-> TRUE, path |-> p, old |-> cache[p], reads |-> w.reads,
              refreshed |-> w.ran, active |-> observers,
              scanned |-> w.scanned, pre |-> dom]
    /\ UNCHANGED <<meta, settings, loaded, savesPending, saves, quiet, hostSteps, tick, envFixed>>

RECURSIVE Dispatch(_, _, _)
\* workspace.trigger(ev): the registered handlers run in registration order
Dispatch(w, ev, rs) ==
    IF rs = <<>> THEN w
    ELSE LET r == Head(rs)
             w1 == IF r.ev # ev THEN w
                   ELSE IF ev = "layout-change" THEN refresh(w, r.inst)
                   ELSE [w EXCEPT !.timers = Append(@, RefreshTimer(r.inst,
                            IF ev = "active-leaf-change" /\ w.insts[r.inst].kind = "tab"
                            THEN 50 ELSE 100))]
         IN Dispatch(w1, ev, Tail(rs))

HostEvent(ev) ==
    /\ HostActs
    /\ hostSteps' = hostSteps + 1
    /\ ev # "layout-change" =>
          Len(timers) + Len(SelectSeq(regs, LAMBDA r : r.ev = ev)) <= MaxTimers
    /\ Commit(Dispatch(World, ev, regs))
    /\ changedLog' = NoChange
    /\ UNCHANGED <<meta, settings, loaded, savesPending, saves, pendingChanged,
                   quiet, tick, envFixed>>

\* setTimeout(() => this.refresh(), 50 | 100) of observer i fires
TimerFires(n) ==
    /\ NoPending
    /\ timers[n].kind = "refresh" /\ Due(n)
    /\ Commit(refresh([World EXCEPT !.timers = RemoveAt(timers, n)], timers[n].inst))
    /\ changedLog' = NoChange
    /\ UNCHANGED <<meta, settings, loaded, savesPending, saves, pendingChanged,
                   quiet, hostSteps, tick, envFixed>>

\* the records queued on observer i's mutation watch are delivered; the
\* microtask notifies the mutation observers in their order of creation
\* (tick tells one delivery from the next when it leaves all else as it was)
MutationCallback(i) ==
    /\ pendingChanged = {}
    /\ insts[i].pend # {}
    /\ \A j \in 1..(i - 1) : insts[j].pend = {}
    /\ Commit(mutationCallback([World EXCEPT !.insts[i].pend = {}], i, insts[i].pend))
    /\ changedLog' = NoChange
    /\ tick' = ~tick
    /\ UNCHANGED <<meta, settings, loaded, savesPending, saves, pendingChanged,
                   quiet, hostSteps, envFixed>>

\* the host replaces element e by a freshly rendered one
HostRerenders(e) ==
    /\ HostActs
    /\ hostSteps' = hostSteps + 1
    /\ dom[e] # PristineEl
    /\ dom' = [dom EXCEPT ![e] = PristineEl]
    /\ insts' = Notify(insts, e, e)
    /\ changedLog' = NoChange
    /\ staleRan' = {}
    /\ UNCHANGED <<meta, settings, cache, nnChecked, nnRef, loaded, observers,
                   regs, timers, savesPending, saves, pendingChanged, quiet,
                   tick, envFixed>>

\* a settings control's onChange: the field is set, saveSettings awaits saveData
BeginSave(st) ==
    /\ HostActs
    /\ hostSteps' = hostSteps + 1
    /\ saves < MaxSaves
    /\ settings' = st
    /\ saves' = saves + 1
    /\ savesPending' = savesPending + 1
    /\ changedLog' = NoChange
    /\ staleRan' = {}
    /\ UNCHANGED <<meta, cache, nnChecked, nnRef, dom, loaded, observers, insts,
                   regs, timers, pendingChanged, quiet, tick, envFixed>>

\* saveData resolved: saveSettings goes on to reinitializeObservers
FinishSave ==
    /\ NoPending
    /\ savesPending > 0
    /\ savesPending' = savesPending - 1
    /\ Commit(reinitializeObservers(World))
    /\ changedLog' = NoChange
    /\ UNCHANGED <<meta, settings, loaded, saves, pendingChanged, quiet, hostSteps, tick, envFixed>>

\* onunload; the host then releases what registerEvent registered
Unload ==
    /\ HostActs
    /\ hostSteps' = hostSteps + 1
    /\ loaded' = FALSE
    /\ LET w == StopEach(World, observers) IN
       Commit([w EXCEPT !.observers = <<>>, !.regs = <<>>])
    /\ changedLog' = NoChange
    /\ UNCHANGED <<meta, settings, savesPending, saves, pendingChanged, quiet,
                   tick, envFixed>>

\* from here on the host raises no event and changes neither index nor DOM
HostGoesQuiet ==
    /\ ~quiet
    /\ quiet' = TRUE
    /\ UNCHANGED <<meta, settings, cache, nnChecked, nnRef, dom, loaded, observers,
                   insts, regs, timers, savesPending, saves, pendingChanged,
                   changedLog, staleRan, hostSteps, tick, envFixed>>

Next ==
    \/ \E n \in DOMAIN timers : StartTimerFires(n)
    \/ \E m \in SysMetaEntries : HostEditsFrontmatter(PathA, m)
    \/ \E p \in Paths : OnMetadataChanged(p)
    \/ \E ev \in {"layout-change", "active-leaf-change", "file-open"} : HostEvent(ev)
    \/ \E n \in DOMAIN timers : TimerFires(n)
    \/ \E i \in DOMAIN insts : MutationCallback(i)
    \/ \E e \in RerenderElements : HostRerenders(e)
    \/ \E st \in SettingsChoices : BeginSave(st)
    \/ FinishSave
    \/ Unload

Spec == SInit /\ [][Next]_vars

\* C36: once onunload has returned the active list stays empty and no
\* observer has a connected mutation watch, also when a deferred start was
\* pending at the time.
NothingRunsAfterUnload ==
    ~loaded =>
        /\ observers = <<>>
        /\ \A i \in DOMAIN insts : ~insts[i].observing

\* LiveSpec: the same program when the host may fall silent for good; the
\* event loop runs every queued microtask and every timer that is due
LiveNext == Next \/ HostGoesQuiet

\* what the event loop runs by itself: microtasks, due timers, the handler of
\* a triggered event, the continuation of a resolved await
Internal ==
    \/ \E i \in DOMAIN insts : MutationCallback(i)
    \/ \E n \in DOMAIN timers : TimerFires(n)
    \/ \E n \in DOMAIN timers : StartTimerFires(n)
    \/ \E p \in Paths : OnMetadataChanged(p)
    \/ FinishSave

\* ENABLED <<Internal>>_vars, from the guards (every Internal step changes
\* the queue it serves, or tick)
InternalEnabled ==
    \/ pendingChanged # {}
    \/ \E i \in DOMAIN insts : insts[i].pend # {}
    \/ timers # <<>>
    \/ savesPending > 0

\* weak fairness of Internal: WF_vars(Internal), with ENABLED <<Internal>>_vars
\* written out as InternalEnabled
LiveSpec ==
    /\ SInit /\ [][LiveNext]_vars
    /\ ([]<>(~InternalEnabled) \/ []<><<Internal>>_vars)

Quiescent ==
    /\ \A i \in DOMAIN insts : insts[i].pend = {} /\ ~insts[i].isRefreshing
    /\ timers = <<>>
    /\ pendingChanged = {}
    /\ savesPending = 0

\* C7: once the host raises no more events and changes neither metadata nor
\* DOM, the chain refresh -> DOM mutation -> mutation callback -> refresh
\* dies out: eventually, and from then on, no mutation watch has records
\* queued and no refresh is running or scheduled.
NoFeedbackLoop == quiet ~> [](quiet /\ Quiescent)

\* a record made by the decorator's own icon insertion is queued on a watch
\* after the host has fallen silent
NoFeedbackLoopWitness ==
    quiet /\ \E i \in DOMAIN insts : "icon" \in insts[i].pend

----------------------------------------------------------------------------
(* Claims about the "changed" handler, checked in the state it leaves *)

\* the path each surface resolves its element to
PathOf(e) ==
    CASE e = "row" -> ElemInfo(e).dataPath.s
      [] e = "img" -> ElemInfo(e).dataPath.s
      [] e = "oth" -> <<>>
      [] e = "tab" -> FindFile(ElemInfo(e).aria.s, <<>>).s
      [] e = "sug" -> SuggesterPath(e).s
      [] e = "lsug" -> SuggesterPath(e).s
      [] e = "bl"  -> BacklinkPath(e).s
      [] e = "bs"  -> BasesPath(e).s
      [] e = "lnk" -> EditorLinkPath(e).s

\* element carries one of the three "styled" marks
Marked(el) == el.inSet \/ el.styled \/ el.styledFor # Undef

\* el shows exactly `style`: the color and the icon container of an element
\* styled afresh with it
ShowsStyle(el, style) ==
    LET want == applyStyle(PristineEl, style, nnChecked, nnRef).el
    IN el.color = want.color /\ el.children = want.children

\* C2: after a metadata-changed event and the global refresh it triggers,
\* every element marked as styled that the refresh scanned carries the color
\* and icon of StyleCache.getStyle(its resolved path).
MarkedElementsShowCurrentStyle ==
    changedLog.valid =>
        \A e \in changedLog.scanned :
            Marked(dom[e]) => ShowsStyle(dom[e], getStyle(cache, PathOf(e)))

\* C3 (Scenario B): the color field of a file is removed and the changed
\* event fires for it; after the refresh, the elements that carried an inline
\* color for that file carry none and their icon container is as before.
ColorRemovalClearsInlineColor ==
    (/\ changedLog.valid
     /\ changedLog.old # Absent
     /\ changedLog.old.color # Null
     /\ computeStyle(changedLog.path).color = Null
     /\ computeStyle(changedLog.path).icon = changedLog.old.icon) =>
        \A e \in changedLog.scanned :
            (PathOf(e) = changedLog.path /\ changedLog.pre[e].color # EmptyStr) =>
                /\ dom[e].color = EmptyStr
                /\ dom[e].children = changedLog.pre[e].children

\* C4: the changed handler drops the file's cache entry before any refresh
\* and then refreshes every active observer exactly once, in order; no
\* getStyle made by those refreshes returns the entry memoized before.
ChangedInvalidatesThenRefreshesAll ==
    changedLog.valid =>
        /\ changedLog.refreshed = changedLog.active
        /\ \A r \in changedLog.reads :
               r.path = changedLog.path => r.result = computeStyle(changedLog.path)

\* the memoized entry differed from the new metadata and the refreshes read it
ChangedInvalidatesWitness ==
    /\ changedLog.valid
    /\ changedLog.old # Absent
    /\ changedLog.old # computeStyle(changedLog.path)
    /\ Len(changedLog.active) = Len(Kinds)
    /\ \E r \in changedLog.reads : r.path = changedLog.path

----------------------------------------------------------------------------
(* Claims about teardown *)

\* C5: once an observer's stop() has returned, its refresh() does not run
\* again, whether from an event registration, a timer or its mutation watch.
StoppedObserverNeverRefreshes == staleRan = {}

\* C6: the host-event registrations held are those of the observers in the
\* active list; none made by a stopped observer is retained.
RegistrationsAreOfActiveObservers ==
    \A n \in DOMAIN regs :
        \E k \in DOMAIN observers : observers[k] = regs[n].inst

----------------------------------------------------------------------------
(* TreeSpec: the file explorer observer alone, over an explorer that shows *)
(* a note, an attachment and a tree item without data-path, while the      *)
(* frontmatter of the note changes and the host re-renders the note's row  *)

TreeMetaEntries ==
    {NoFM, FM(Fields(Red, Star)), FM(Fields(Undef, PhBridge)),
     FM(Fields(EmptyStr, UnknownNs)), FM(Fields(Blue, Undef))}

treeFixed == <<shows, layout, present, settings, nnInstalled, nnMode, cacheHist, hist, loaded,
               savesPending, saves, quiet, hostSteps, tick, changedLog>>

\* a FileExplorerObserver has been constructed
TInit ==
    /\ meta \in [Paths -> TreeMetaEntries]
    /\ meta[PathB] = NoFM
    /\ settings = DEFAULT_SETTINGS
    /\ cache = EmptyCache
    /\ nnInstalled \in BOOLEAN
    /\ nnMode \in {"ok", "throws"}
    /\ CacheHistIdle
    /\ ApplicatorIdle
    /\ loaded = TRUE
    /\ observers = <<>>
    /\ insts = <<NewObserver("fe")>>
    /\ regs = <<>>
    /\ timers = <<>>
    /\ savesPending = 0
    /\ saves = 0
    /\ pendingChanged = {}
    /\ quiet = FALSE
    /\ hostSteps = 0
    /\ tick = FALSE
    /\ changedLog = NoChange
    /\ staleRan = {}
    /\ handlerLog = NoRun
    /\ shows = ShowsA
    /\ layout = StdLayout(shows)
    /\ present = AllSurfaces

\* what a handler that ran FileExplorerObserver.refresh() started from and did
RefreshRun(w) ==
    [op |-> "fe.refresh", pre |-> dom, reads |-> w.reads, scanned |-> w.scanned]

\* startObservers: observer.start(), this.observers.push(observer)
TStart ==
    /\ NoPending
    /\ observers = <<>>
    /\ LET w == start(World, 1) IN
       /\ Commit([w EXCEPT !.observers = <<1>>])
       /\ handlerLog' = RefreshRun(w)
    /\ UNCHANGED <<meta, pendingChanged, treeFixed>>

\* refreshAllObservers() called by a handler
TRefreshAll ==
    /\ NoPending
    /\ observers # <<>>
    /\ LET w == refreshAllObservers(World) IN
       /\ Commit(w)
       /\ handlerLog' = RefreshRun(w)
    /\ UNCHANGED <<meta, pendingChanged, treeFixed>>

\* the host index re-parses file p and triggers "changed"
TEdit(p, m) ==
    /\ NoPending
    /\ meta[p] # m
    /\ meta' = [meta EXCEPT ![p] = m]
    /\ pendingChanged' = {p}
    /\ handlerLog' = NoRun
    /\ UNCHANGED <<cache, dom, nnChecked, nnRef, insts, regs, observers, timers,
                   staleRan, treeFixed>>

\* the plugin's "changed" handler
TChanged(p) ==
    /\ p \in pendingChanged
    /\ pendingChanged' = {}
    /\ LET w == onMetadataChanged(World, p) IN
       /\ Commit(w)
       /\ handlerLog' = IF w.ran = <<>> THEN NoRun ELSE RefreshRun(w)
    /\ UNCHANGED <<meta, treeFixed>>

\* virtual scrolling: the host replaces the row of the note by a new element
TRerender(e) ==
    /\ NoPending
    /\ dom[e] # PristineEl
    /\ dom' = [dom EXCEPT ![e] = PristineEl]
    /\ insts' = Notify(insts, e, e)
    /\ handlerLog' = NoRun
    /\ UNCHANGED <<meta, cache, nnChecked, nnRef, regs, observers, timers,
                   staleRan, pendingChanged, treeFixed>>

\* the records queued on the explorer's mutation watch are delivered
TCallback ==
    /\ pendingChanged = {}
    /\ insts[1].pend # {}
    /\ Commit(mutationCallback([World EXCEPT !.insts[1].pend = {}], 1, insts[1].pend))
    /\ handlerLog' = NoRun
    /\ UNCHANGED <<meta, pendingChanged, treeFixed>>

TNext ==
    \/ TStart
    \/ TRefreshAll
    \/ \E m \in TreeMetaEntries : TEdit(PathA, m)
    \/ \E p \in Paths : TChanged(p)
    \/ \E e \in {"row"} : TRerender(e)
    \/ TCallback

TreeSpec == TInit /\ [][TNext]_vars

\* some renderer available in this run knows the identifier
Renderable(iconId) ==
    \/ nnInstalled /\ nnMode = "ok" /\ normalizeIconIdForNN(iconId) \in NNCatalog
    \/ /\ normalizeLucideIcon(iconId) # Null
       /\ normalizeLucideIcon(iconId).s \in BuiltinIcons

\* the container's content is a rendering of the identifier
Renders(content, iconId) ==
    /\ content # Blank
    /\ \/ content.id = normalizeIconIdForNN(iconId)
       \/ Str(content.id) = normalizeLucideIcon(iconId)

\* C12: after the explorer's refresh, every row whose data-path ends in ".md"
\* has the inline color getStyle(path).color when the style has a color, and
\* exactly one icon container when the style has an icon, rendering that icon
\* if a renderer knows it; the rows without data-path or with another
\* extension are as they were before the refresh.
TreeRefreshStylesRows ==
    handlerLog.op = "fe.refresh" =>
        \A j \in 1..Len(Targets("fe")) :
            LET e == Targets("fe")[j]
                filePath == ElemInfo(e).dataPath
            IN IF Truthy(filePath) /\ EndsWith(filePath.s, <<".md">>)
               THEN LET style == getStyle(cache, filePath.s) IN
                    /\ Truthy(style.color) => dom[e].color = style.color
                    /\ Truthy(style.icon) =>
                          /\ NumIcons(dom[e].children) = 1
                          /\ Renderable(style.icon.s) =>
                                Renders(IconContent(dom[e]), style.icon.s)
               ELSE dom[e] = handlerLog.pre[e]

\* a refresh re-styled a row that an earlier refresh had styled for other
\* frontmatter, and it scanned the rows that are not notes
TreeRefreshWitness ==
    /\ handlerLog.op = "fe.refresh"
    /\ handlerLog.pre["row"].color = Red
    /\ HasIcon(handlerLog.pre["row"].children)
    /\ dom["row"].color = Blue
    /\ {"img", "oth"} \subseteq handlerLog.scanned

----------------------------------------------------------------------------
(* NormSpec: the two normalizations applied to the identifiers applyIcon   *)
(* can pass them (style.icon is truthy there, so never the empty string)   *)

MaxIdLen == 4       \* tokens in an icon identifier

IdTokens == {"lucide-", "phosphor", "simple-icons", ":", "ph-", "si-", "bridge"}
RECURSIVE IdsOfLen(_)
IdsOfLen(n) ==
    IF n = 0 THEN {<<>>}
    ELSE {<<t>> \o r : t \in IdTokens, r \in IdsOfLen(n - 1)}
IconIds == UNION {IdsOfLen(n) : n \in 1..MaxIdLen}

normFixed == <<shows, layout, present, meta, nnInstalled, nnMode, settings, cache, nnChecked, nnRef, dom,
               fresh, firstMeta, lastGet, hist, loaded, observers, insts, regs,
               timers, savesPending, saves, pendingChanged, quiet, hostSteps,
               tick, changedLog, staleRan>>

\* the identifier applyIcon is called with
IconArg(iconId) == [op |-> "applyIcon", iconId |-> iconId]

NInit ==
    /\ meta = [p \in Paths |-> NoFM]
    /\ settings = DEFAULT_SETTINGS
    /\ cache = EmptyCache
    /\ nnInstalled = FALSE
    /\ nnMode = "ok"
    /\ CacheHistIdle
    /\ ApplicatorIdle
    /\ loaded = FALSE
    /\ observers = <<>>
    /\ insts = <<>>
    /\ regs = <<>>
    /\ timers = <<>>
    /\ savesPending = 0
    /\ saves = 0
    /\ pendingChanged = {}
    /\ quiet = FALSE
    /\ hostSteps = 0
    /\ tick = FALSE
    /\ changedLog = NoChange
    /\ staleRan = {}
    /\ handlerLog \in {IconArg(iconId) : iconId \in IconIds}
    /\ shows = ShowsA
    /\ layout = StdLayout(shows)
    /\ present = AllSurfaces

\* applyIcon normalizes iconId for the third-party service and for setIcon
NNormalize ==
    /\ handlerLog.op = "applyIcon"
    /\ handlerLog' = [op |-> "normalize", iconId |-> handlerLog.iconId,
                      forNN |-> normalizeIconIdForNN(handlerLog.iconId),
                      forLucide |-> normalizeLucideIcon(handlerLog.iconId)]
    /\ UNCHANGED normFixed

NNext == NNormalize

NormSpec == NInit /\ [][NNext]_vars

\* C13: an identifier without ":" and without the "lucide-" prefix reaches the
\* built-in renderer with "lucide-" put in front; one that starts with
\* "lucide-" reaches it unchanged.  For the third-party service,
\* "phosphor:ph-X" becomes "phosphor:X" and "simple-icons:si-X" becomes
\* "simple-icons:X" (the redundant third token is dropped), and every other
\* identifier is passed unchanged.
IconNormalization ==
    handlerLog.op = "normalize" =>
        LET id == handlerLog.iconId
            ph == Len(id) >= 3 /\ id[1] = "phosphor" /\ id[2] = ":" /\ id[3] = "ph-"
            si == Len(id) >= 3 /\ id[1] = "simple-icons" /\ id[2] = ":" /\ id[3] = "si-"
        IN /\ (~Includes(id, ":") /\ id[1] # "lucide-") =>
                 /\ handlerLog.forLucide.t = "str"
                 /\ Head(handlerLog.forLucide.s) = "lucide-"
                 /\ Tail(handlerLog.forLucide.s) = id
           /\ id[1] = "lucide-" => handlerLog.forLucide = Str(id)
           /\ (ph \/ si) => handlerLog.forNN = RemoveAt(id, 3)
           /\ ~(ph \/ si) => handlerLog.forNN = id

IconNormalizationWitness ==
    /\ handlerLog.op = "normalize"
    /\ handlerLog.iconId = <<"phosphor", ":", "ph-", "bridge">>
    /\ handlerLog.forNN = <<"phosphor", ":", "bridge">>
    /\ handlerLog.forLucide = Null

----------------------------------------------------------------------------
(* SettingsSpec: the user changes toggles in the settings tab while the    *)
(* quick switcher and the link suggester show a.md; every change runs      *)
(* saveSettings, and the deferred starts fire when their delay is over     *)

MaxSettingsSaves == 2   \* settings changes in one run

QuickSwitcherOff == [DEFAULT_SETTINGS EXCEPT !.enableQuickSwitcher = FALSE]
SuggesterOff == [DEFAULT_SETTINGS EXCEPT !.enableSuggester = FALSE]
PopupsOff ==
    [DEFAULT_SETTINGS EXCEPT !.enableQuickSwitcher = FALSE,
                             !.enableSuggester = FALSE]
\* what loadSettings / the settings tab can leave in this.settings
SettingsStates == {DEFAULT_SETTINGS, QuickSwitcherOff, SuggesterOff, PopupsOff}

PopupRows == {"sug", "lsug"}

\* the toggles of the settings tab; each onChange sets one of them
ToggleNames ==
    {"enableFileExplorer", "enableTabHeader", "enableQuickSwitcher",
     "enableSuggester", "enableBacklinks", "enableBases", "enableEditorLinks"}
OneToggle(old, new) ==
    Cardinality({f \in ToggleNames : old[f] # new[f]}) = 1

settingsFixed == <<shows, layout, present, meta, nnInstalled, nnMode, cacheHist, hist, loaded, quiet,
                   hostSteps, changedLog, pendingChanged>>

\* state after onload, with the settings loadSettings read
SetInit ==
    /\ meta = [p \in Paths |-> IF p = PathA THEN FM(Fields(Red, Star)) ELSE NoFM]
    /\ settings \in SettingsStates
    /\ cache = EmptyCache
    /\ nnInstalled = FALSE
    /\ nnMode = "ok"
    /\ CacheHistIdle
    /\ ApplicatorIdle
    /\ loaded = TRUE
    /\ observers = <<>>
    /\ insts = <<>>
    /\ regs = <<>>
    /\ timers = <<StartTimer>>
    /\ savesPending = 0
    /\ saves = 0
    /\ pendingChanged = {}
    /\ quiet = FALSE
    /\ hostSteps = 0
    /\ tick = FALSE
    /\ changedLog = NoChange
    /\ staleRan = {}
    /\ handlerLog = NoRun
    /\ shows = ShowsA
    /\ layout = StdLayout(shows)
    /\ present = AllSurfaces

\* setTimeout(() => this.startObservers(), 500) fires
SetStart(n) ==
    /\ NoPending
    /\ timers[n].kind = "start" /\ Due(n)
    /\ Commit(startObservers([World EXCEPT !.timers = RemoveAt(timers, n)]))
    /\ handlerLog' = [op |-> "start", active |-> observers]
    /\ UNCHANGED <<settings, savesPending, saves, tick, settingsFixed>>

\* a toggle's onChange: the field is set, saveSettings awaits saveData
SetSave(st) ==
    /\ NoPending
    /\ saves < MaxSettingsSaves
    /\ OneToggle(settings, st)
    /\ settings' = st
    /\ saves' = saves + 1
    /\ savesPending' = savesPending + 1
    /\ handlerLog' = NoRun
    /\ UNCHANGED <<cache, nnChecked, nnRef, dom, observers, insts, regs, timers,
                   staleRan, tick, settingsFixed>>

\* saveData resolved: saveSettings goes on to reinitializeObservers
SetFinishSave ==
    /\ NoPending
    /\ savesPending > 0
    /\ savesPending' = savesPending - 1
    /\ Commit(reinitializeObservers(World))
    /\ handlerLog' = [op |-> "save", active |-> observers]
    /\ UNCHANGED <<settings, saves, tick, settingsFixed>>

\* the records queued on observer i's mutation watch are delivered
SetCallback(i) ==
    /\ insts[i].pend # {}
    /\ \A j \in 1..(i - 1) : insts[j].pend = {}
    /\ Commit(mutationCallback([World EXCEPT !.insts[i].pend = {}], i, insts[i].pend))
    /\ tick' = ~tick
    /\ UNCHANGED <<settings, savesPending, saves, handlerLog, settingsFixed>>

\* the user types in the quick switcher or the link suggester: the host
\* renders row e anew
SetPopup(e) ==
    /\ NoPending
    /\ dom[e] # PristineEl
    /\ dom' = [dom EXCEPT ![e] = PristineEl]
    /\ insts' = Notify(insts, e, e)
    /\ UNCHANGED <<settings, cache, nnChecked, nnRef, observers, regs, timers,
                   staleRan, savesPending, saves, tick, handlerLog, settingsFixed>>

SetNext ==
    \/ \E n \in DOMAIN timers : SetStart(n)
    \/ \E st \in SettingsStates : SetSave(st)
    \/ SetFinishSave
    \/ \E i \in DOMAIN insts : SetCallback(i)
    \/ \E e \in PopupRows : SetPopup(e)

SettingsSpec == SetInit /\ [][SetNext]_vars

\* number of active observers of a surface
ActiveOf(kind) ==
    Cardinality({k \in DOMAIN observers : insts[observers[k]].kind = kind})

\* C15: when saveSettings has run, every observer that was active before it
\* is stopped and the cache is empty; when a deferred start has run, the
\* active list holds exactly one observer for each surface whose flag is
\* true (the suggester's if enableQuickSwitcher or enableSuggester) and none
\* for a surface whose flag is false.
SettingsRebuild ==
    /\ handlerLog.op = "save" =>
          /\ \A k \in DOMAIN handlerLog.active : insts[handlerLog.active[k]].stopped
          /\ cache = EmptyCache
    /\ handlerLog.op = "start" =>
          \A j \in DOMAIN Kinds :
              ActiveOf(Kinds[j]) = IF Enabled(settings, Kinds[j]) THEN 1 ELSE 0

\* C35: in every state the active observer list holds at most one observer
\* of each surface, also when settings are saved while a deferred start is
\* still pending.
AtMostOneObserverPerSurface ==
    \A j \in DOMAIN Kinds : ActiveOf(Kinds[j]) <= 1

\* C16: while the Quick Switcher toggle is off and no save is under way, no
\* step styles a quick-switcher row (a step changes such a row only by
\* rendering it anew); the same for the Link Suggester toggle and the rows
\* of the link suggester.
TogglesAreIndividual ==
    [][/\ (~settings.enableQuickSwitcher /\ ~settings'.enableQuickSwitcher
           /\ savesPending = 0 /\ savesPending' = 0) =>
              (dom'["sug"] = dom["sug"] \/ dom'["sug"] = PristineEl)
       /\ (~settings.enableSuggester /\ ~settings'.enableSuggester
           /\ savesPending = 0 /\ savesPending' = 0) =>
              (dom'["lsug"] = dom["lsug"] \/ dom'["lsug"] = PristineEl)]_vars

----------------------------------------------------------------------------
(* EventsSpec: the vault events, the refresh command and the tab strip.    *)
(* The note a.md may be edited and renamed to Projects/b.md; another note  *)
(* Projects/b.md without frontmatter may exist, be shown in the tab and be *)
(* deleted.  The host's index and document are up to date when a handler   *)
(* of the plugin runs.                                                      *)

MaxEventSteps == 3   \* host-initiated tasks in one run

EvMetaEntries == {FM(Fields(Red, Star)), FM(Fields(Blue, Undef))}

eventsFixed == <<present, settings, nnInstalled, nnMode, cacheHist, hist, loaded,
                 savesPending, saves, quiet, tick, changedLog>>

\* state after onload; the tab shows a.md or the other note
EvInit ==
    /\ meta \in [Paths -> {NoFile, NoFM, FM(Fields(Red, Star))}]
    /\ meta[PathA] = FM(Fields(Red, Star))
    /\ meta[PathB] \in {NoFile, NoFM}
    /\ \E t \in Paths :
          /\ meta[t] # NoFile
          /\ shows = [e \in Elements |-> IF e = "tab" THEN t ELSE PathA]
    /\ settings = DEFAULT_SETTINGS
    /\ cache = EmptyCache
    /\ nnInstalled = FALSE
    /\ nnMode = "ok"
    /\ CacheHistIdle
    /\ ApplicatorIdle
    /\ loaded = TRUE
    /\ observers = <<>>
    /\ insts = <<>>
    /\ regs = <<>>
    /\ timers = <<StartTimer>>
    /\ savesPending = 0
    /\ saves = 0
    /\ pendingChanged = {}
    /\ quiet = FALSE
    /\ hostSteps = 0
    /\ tick = FALSE
    /\ changedLog = NoChange
    /\ staleRan = {}
    /\ handlerLog = NoRun
    /\ layout = StdLayout(shows)
    /\ present = AllSurfaces

\* what the handler `op` started from and did
RunLog(op, w, args) ==
    [op |-> op, args |-> args, pre |-> dom, cachePre |-> cache,
     active |-> observers, reads |-> w.reads, ran |-> w.ran,
     scanned |-> w.scanned]

\* a vault event has been triggered and the plugin's handler is to run
EventPending == handlerLog.op \in {"rename.pending", "delete.pending"}
\* nothing of the current task is left to run
EvIdle == NoPending /\ ~EventPending
\* the host starts a task of its own
EvHost == EvIdle /\ hostSteps < MaxEventSteps

\* setTimeout(() => this.startObservers(), 500) fires
EvStart(n) ==
    /\ EvIdle
    /\ timers[n].kind = "start" /\ Due(n)
    /\ Commit(startObservers([World EXCEPT !.timers = RemoveAt(timers, n)]))
    /\ handlerLog' = NoRun
    /\ UNCHANGED <<meta, shows, layout, pendingChanged, hostSteps, eventsFixed>>

\* the records queued on observer i's mutation watch are delivered
EvCallback(i) ==
    /\ pendingChanged = {} /\ ~EventPending
    /\ insts[i].pend # {}
    /\ \A j \in 1..(i - 1) : insts[j].pend = {}
    /\ LET w == mutationCallback([World EXCEPT !.insts[i].pend = {}], i, insts[i].pend)
       IN /\ Commit(w)
          /\ handlerLog' = RunLog("callback", w, [inst |-> i])
    /\ UNCHANGED <<meta, shows, layout, pendingChanged, hostSteps, eventsFixed>>

\* the host index re-parses the note (new entry m) and triggers "changed"
EvEdit(p, m) ==
    /\ EvHost
    /\ hostSteps' = hostSteps + 1
    /\ p = shows["row"]
    /\ meta[p] # m
    /\ meta' = [meta EXCEPT ![p] = m]
    /\ pendingChanged' = {p}
    /\ handlerLog' = NoRun
    /\ UNCHANGED <<shows, layout, cache, nnChecked, nnRef, dom, observers, insts, regs,
                   timers, staleRan, eventsFixed>>

\* the plugin's metadataCache.on("changed") handler
EvChanged(p) ==
    /\ p \in pendingChanged
    /\ pendingChanged' = {}
    /\ LET w == onMetadataChanged(World, p) IN
       /\ Commit(w)
       /\ handlerLog' = RunLog("changed", w, [path |-> p])
    /\ UNCHANGED <<meta, shows, layout, hostSteps, eventsFixed>>

\* vault.on("rename") handler
onFileRenamed(w, oldPath, newPath) ==
    refreshAllObservers(
        [w EXCEPT !.cache = invalidate(invalidate(w.cache, oldPath), newPath)])

\* the user renames a.md to Projects/b.md: the index entry moves, every
\* element that displays the note gets the new path and name, and the
\* explorer either updates the row in place or puts a new row in its place;
\* the vault then triggers "rename"
EvRenameHost(inPlace) ==
    /\ EvHost
    /\ hostSteps' = hostSteps + 1
    /\ meta[PathA] # NoFile /\ meta[PathB] = NoFile
    /\ meta' = [p \in Paths |-> IF p = PathB THEN meta[PathA] ELSE NoFile]
    /\ shows' = [e \in Elements |-> PathB]
    /\ layout' = StdLayout([e \in Elements |-> PathB])
    /\ dom' = IF inPlace THEN dom ELSE [dom EXCEPT !["row"] = PristineEl]
    /\ insts' = IF inPlace THEN insts ELSE Notify(insts, "row", "row")
    /\ handlerLog' = [op |-> "rename.pending", oldPath |-> PathA, newPath |-> PathB]
    /\ UNCHANGED <<cache, nnChecked, nnRef, observers, regs, timers, staleRan,
                   pendingChanged, eventsFixed>>

EvOnRename ==
    /\ handlerLog.op = "rename.pending"
    /\ LET w == onFileRenamed(World, handlerLog.oldPath, handlerLog.newPath) IN
       /\ Commit(w)
       /\ handlerLog' = RunLog("rename", w, [oldPath |-> handlerLog.oldPath,
                                              newPath |-> handlerLog.newPath])
    /\ UNCHANGED <<meta, shows, layout, pendingChanged, hostSteps, eventsFixed>>

onFileDeleted_NoInvalidate(w, path) == w

\* vault.on("delete") handler
onFileDeleted(w, path) == [w EXCEPT !.cache = invalidate(w.cache, path)]

\* the user deletes the other note, which no element displays; the vault
\* triggers "delete"
EvDeleteHost(p) ==
    /\ EvHost
    /\ hostSteps' = hostSteps + 1
    /\ meta[p] # NoFile
    /\ \A e \in Elements : shows[e] # p
    /\ meta' = [meta EXCEPT ![p] = NoFile]
    /\ handlerLog' = [op |-> "delete.pending", path |-> p]
    /\ UNCHANGED <<shows, layout, cache, nnChecked, nnRef, dom, observers, insts, regs,
                   timers, staleRan, pendingChanged, eventsFixed>>

EvOnDelete ==
    /\ handlerLog.op = "delete.pending"
    /\ LET w == onFileDeleted(World, handlerLog.path) IN
       /\ Commit(w)
       /\ handlerLog' = RunLog("delete", w, [path |-> handlerLog.path])
    /\ UNCHANGED <<meta, shows, layout, pendingChanged, hostSteps, eventsFixed>>

refreshCommand_RefreshFirst(w) ==
    LET w1 == refreshAllObservers(w) IN [w1 EXCEPT !.cache = clear(w1.cache)]

\* callback of the command "Refresh frontmatter styles"
refreshCommand(w) == refreshAllObservers([w EXCEPT !.cache = clear(w.cache)])

EvCommand ==
    /\ EvHost
    /\ hostSteps' = hostSteps + 1
    /\ LET w == refreshCommand(World) IN
       /\ Commit(w)
       /\ handlerLog' = RunLog("command", w, [path |-> PathA])
    /\ UNCHANGED <<meta, shows, layout, pendingChanged, eventsFixed>>

\* the user opens note p in the tab: the header element stays, the host
\* gives it the new aria-label and title; it either changes the text node in
\* place or replaces the title's children by a new text node
EvSwitchTab(p, inPlace) ==
    /\ EvHost
    /\ hostSteps' = hostSteps + 1
    /\ meta[p] # NoFile
    /\ shows["tab"] # p
    /\ shows' = [shows EXCEPT !["tab"] = p]
    /\ layout' = StdLayout([shows EXCEPT !["tab"] = p])
    /\ dom' = IF inPlace THEN dom
              ELSE [dom EXCEPT !["tab"].children = <<TextNode>>]
    /\ insts' = IF inPlace THEN insts ELSE Notify(insts, "tab", "tab")
    /\ handlerLog' = NoRun
    /\ UNCHANGED <<meta, cache, nnChecked, nnRef, observers, regs, timers,
                   staleRan, pendingChanged, eventsFixed>>

\* workspace.trigger("layout-change")
EvLayoutChange ==
    /\ EvHost
    /\ hostSteps' = hostSteps + 1
    /\ LET w == Dispatch(World, "layout-change", regs) IN
       /\ Commit(w)
       /\ handlerLog' = RunLog("layout-change", w, [path |-> PathA])
    /\ UNCHANGED <<meta, shows, layout, pendingChanged, eventsFixed>>

EvNext ==
    \/ \E n \in DOMAIN timers : EvStart(n)
    \/ \E i \in DOMAIN insts : EvCallback(i)
    \/ \E p \in Paths, m \in EvMetaEntries : EvEdit(p, m)
    \/ \E p \in Paths : EvChanged(p)
    \/ \E inPlace \in BOOLEAN : EvRenameHost(inPlace)
    \/ EvOnRename
    \/ \E p \in Paths : EvDeleteHost(p)
    \/ EvOnDelete
    \/ EvCommand
    \/ \E p \in Paths, inPlace \in BOOLEAN : EvSwitchTab(p, inPlace)
    \/ EvLayoutChange

EventsSpec == EvInit /\ [][EvNext]_vars

\* the elements that display a note
NoteElements == Elements \ {"img", "oth"}

\* C17 (Scenario D): when the note is renamed, no getStyle of the old or the
\* new path made by the handler's refreshes returns a memoized entry, every
\* active observer is refreshed once, and afterwards every element that
\* displays the note shows the style computed for the new path (an editor
\* link, which never gets an icon, shows its color).
RenameRestylesForNewPath ==
    handlerLog.op = "rename" =>
        /\ \A r \in handlerLog.reads :
               r.path \in {handlerLog.args.oldPath, handlerLog.args.newPath} =>
                   r.result = computeStyle(r.path)
        /\ handlerLog.ran = handlerLog.active
        /\ \A e \in NoteElements \cap handlerLog.scanned :
               shows[e] = handlerLog.args.newPath =>
                   IF e = "lnk"
                   THEN dom[e].color =
                            applyStyle(PristineEl, computeStyle(handlerLog.args.newPath),
                                       nnChecked, nnRef).el.color
                   ELSE ShowsStyle(dom[e], computeStyle(handlerLog.args.newPath))

\* C18 as stated: the delete handler invalidates the deleted path and
\* refreshes every active observer.
DeleteInvalidatesAndRefreshes ==
    handlerLog.op = "delete" =>
        /\ cache[handlerLog.args.path] = Absent
        /\ handlerLog.ran = handlerLog.active

\* C18 amended: the delete handler removes the cache entry of the deleted
\* path and does nothing else: the other entries stay, no observer is
\* refreshed and no element is written to.
DeleteOnlyInvalidates ==
    handlerLog.op = "delete" =>
        /\ cache = [handlerLog.cachePre EXCEPT ![handlerLog.args.path] = Absent]
        /\ handlerLog.ran = <<>>
        /\ dom = handlerLog.pre

\* a note whose style was memoized is deleted while observers are active
DeleteOnlyInvalidatesWitness ==
    /\ handlerLog.op = "delete"
    /\ handlerLog.cachePre[handlerLog.args.path] # Absent
    /\ handlerLog.cachePre[PathA] # Absent
    /\ Len(handlerLog.active) = Len(Kinds)

\* C19: the refresh command empties the cache first and then calls refresh()
\* once on every active observer, in order: every getStyle made by those
\* refreshes returns the style of the current metadata, and the cache holds
\* afterwards exactly the entries those calls computed.
RefreshCommandRecomputes ==
    handlerLog.op = "command" =>
        /\ handlerLog.ran = handlerLog.active
        /\ \A r \in handlerLog.reads :
               r.result = computeStyle(r.path) /\ cache[r.path] = r.result
        /\ \A q \in Paths :
               cache[q] # Absent => \E r \in handlerLog.reads : r.path = q

\* the command ran with all observers active and dropped a memoized entry
\* that its refreshes did not compute again
RefreshCommandWitness ==
    /\ handlerLog.op = "command"
    /\ Len(handlerLog.active) = Len(Kinds)
    /\ \E r \in handlerLog.reads : handlerLog.cachePre[r.path] # Absent
    /\ \E q \in Paths : handlerLog.cachePre[q] # Absent /\ cache[q] = Absent

\* a refresh of the tab strip ran in the last handler
TabRefreshed ==
    /\ handlerLog.op \in {"layout-change", "callback", "command", "changed"}
    /\ \E k \in DOMAIN handlerLog.ran : insts[handlerLog.ran[k]].kind = "tab"

\* C20: when the tab header was styled for one note and now shows another
\* note whose frontmatter gives neither color nor icon, then after a refresh
\* of the tab strip the header title has no inline color and no icon
\* container.
TabDropsEarlierStyle ==
    (/\ TabRefreshed
     /\ handlerLog.pre["tab"].styledFor # Undef
     /\ handlerLog.pre["tab"].styledFor # ElemInfo("tab").aria
     /\ computeStyle(shows["tab"]) = NullStyle) =>
        /\ dom["tab"].color = EmptyStr
        /\ ~HasIcon(dom["tab"].children)

----------------------------------------------------------------------------
(* ProbeSpec: applyStyle called again and again on one element while the   *)
(* user installs or removes the third-party plugin, its icon service       *)
(* starts or stops failing, and the frontmatter of the note changes        *)

MaxProbeApplies == 3    \* applyStyle calls in one run

ProbeMetaEntries ==
    {FM(Fields(Red, Star)), FM(Fields(Undef, PhBridge)), FM(Fields(Blue, Undef))}

\* no applyStyle call has been made
NoApply ==
    [op |-> "none", pre |-> PristineEl, post |-> PristineEl, style |-> NullStyle,
     calls |-> {}, service |-> FALSE, applies |-> 0, iconApplies |-> 0,
     probed |-> FALSE, probeSaw |-> FALSE, installedAtCall |-> FALSE,
     modeAtCall |-> "ok", prevFailed |-> FALSE, prevMode |-> "ok",
     afterFailure |-> FALSE, failureMode |-> "ok"]

PInit ==
    /\ meta \in [Paths -> ProbeMetaEntries \cup {NoFM}]
    /\ meta[PathA] \in ProbeMetaEntries
    /\ meta[PathB] = NoFM
    /\ settings = DEFAULT_SETTINGS
    /\ cache = EmptyCache
    /\ nnInstalled \in BOOLEAN
    /\ nnMode \in NNModes
    /\ CacheHistIdle
    /\ dom = PristineDom
    /\ nnChecked = FALSE
    /\ nnRef = FALSE
    /\ hist = NoApply
    /\ SystemIdle

\* the service was called by the applyStyle call that returned r and did not
\* render the icon
ServiceFailed(r) ==
    /\ \E c \in r.calls : c.by = "nn"
    /\ LET content == r.el.children[FirstIcon(r.el.children)].content
       IN content = Blank \/ content.by # "nn"

\* styleApplicator.applyStyle(element, PathA)
PApply ==
    LET style == getStyle(cache, PathA)
        r == applyStyle(dom["row"], style, nnChecked, nnRef)
        probed == r.checked /\ ~nnChecked
        viaIcon == Truthy(style.icon)
    IN /\ hist.applies < MaxProbeApplies
       /\ cache' = getStyleCache(cache, PathA)
       /\ dom' = [dom EXCEPT !["row"] = r.el]
       /\ nnChecked' = r.checked
       /\ nnRef' = r.ref
       /\ hist' = [op |-> "apply", pre |-> dom["row"], post |-> r.el,
                   style |-> style, calls |-> r.calls, service |-> r.ref,
                   applies |-> hist.applies + 1,
                   iconApplies |-> hist.iconApplies + (IF viaIcon THEN 1 ELSE 0),
                   probed |-> probed,
                   probeSaw |-> IF probed THEN nnInstalled ELSE hist.probeSaw,
                   installedAtCall |-> nnInstalled, modeAtCall |-> nnMode,
                   prevFailed |-> IF viaIcon THEN ServiceFailed(r) ELSE hist.prevFailed,
                   prevMode |-> IF viaIcon THEN nnMode ELSE hist.prevMode,
                   afterFailure |-> viaIcon /\ hist.prevFailed,
                   failureMode |-> hist.prevMode]
       /\ UNCHANGED <<meta, settings, nnInstalled, nnMode, cacheHist, sysVars>>

\* the user installs and enables, or disables, the third-party plugin
PHostPlugin(b) ==
    /\ nnInstalled # b
    /\ nnInstalled' = b
    /\ UNCHANGED <<meta, settings, cache, nnMode, nnChecked, nnRef, dom,
                   cacheHist, hist, sysVars>>

\* the icon service of the third-party plugin changes its behaviour
PServiceMode(m) ==
    /\ nnMode # m
    /\ nnMode' = m
    /\ UNCHANGED <<meta, settings, cache, nnInstalled, nnChecked, nnRef, dom,
                   cacheHist, hist, sysVars>>

\* the frontmatter of the note changes and its cache entry is invalidated
PMetaChanged(m) ==
    /\ meta[PathA] # m
    /\ meta' = [meta EXCEPT ![PathA] = m]
    /\ cache' = invalidate(cache, PathA)
    /\ UNCHANGED <<settings, nnVars, dom, cacheHist, hist, sysVars>>

PNext ==
    \/ PApply
    \/ \E b \in BOOLEAN : PHostPlugin(b)
    \/ \E m \in NNModes : PServiceMode(m)
    \/ \E m \in ProbeMetaEntries : PMetaChanged(m)

ProbeSpec == PInit /\ [][PNext]_vars

\* C25: the host's plugin table is read by the first applyStyle call that
\* applies an icon and by no other call; what that probe found is what every
\* later call uses: when it found no plugin, no later call calls the service,
\* also when the plugin has been installed since.
ProbeOnceLazily ==
    /\ nnChecked <=> hist.iconApplies > 0
    /\ nnChecked => nnRef = hist.probeSaw
    /\ hist.op = "apply" =>
          /\ hist.probed <=> (Truthy(hist.style.icon) /\ hist.iconApplies = 1)
          /\ hist.service = hist.probeSaw
          /\ ~hist.probeSaw => ~CalledService

\* the probe had found no plugin; the plugin was installed afterwards, with a
\* working service that knows the icon, and a later call did not use it
ProbeOnceLazilyWitness ==
    /\ hist.op = "apply"
    /\ hist.style.icon = PhBridge
    /\ ~hist.probed /\ ~hist.probeSaw
    /\ hist.installedAtCall /\ hist.modeAtCall = "ok"
    /\ hist.calls = {}
    /\ IconContent(hist.post) = Blank

\* C26: when the service is called and throws or renders nothing, applyStyle
\* completes, the icon is rendered by the built-in path if it has a built-in
\* name, and the plugin stays the one later calls use; the next call that
\* applies an icon calls the service again unless the service has gone.
ServiceFailureNotCached ==
    IconApplied =>
        /\ (CalledService /\ ~ServiceRendered) =>
              /\ hist.post.inSet
              /\ IconContent(hist.post) =
                     IF normalizeLucideIcon(hist.style.icon.s) # Null
                     THEN setIcon(normalizeLucideIcon(hist.style.icon.s).s)
                     ELSE Blank
              /\ nnRef
        /\ (hist.afterFailure /\ hist.modeAtCall # "noservice") => CalledService

\* the service threw in one call and rendered the icon in the next
ServiceFailureNotCachedWitness ==
    /\ IconApplied
    /\ hist.afterFailure /\ hist.failureMode = "throws"
    /\ hist.modeAtCall = "ok"
    /\ ServiceRendered

----------------------------------------------------------------------------
(* ObserverSpec: one observer of any of the six kinds, alone: it is        *)
(* started, refreshed by the plugin's handlers, and gets the mutation      *)
(* records of its watch, while the host edits the note's frontmatter and   *)
(* renders target elements anew                                            *)

ObsMetaEntries == {NoFM, FM(Fields(Red, Star)), FM(Fields(Blue, Undef))}

TargetSet(kind) == {Targets(kind)[j] : j \in 1..Len(Targets(kind))}

\* no handler has run
ObsIdle ==
    [op |-> "none", pre |-> PristineDom, pendPre |-> {}, steps |-> <<>>,
     scanned |-> {}, ran |-> <<>>, skipped |-> {}, absentAtStart |-> FALSE]

\* an observer has been constructed by startObservers
OInit ==
    /\ meta \in [Paths -> ObsMetaEntries]
    /\ meta[PathB] = NoFM
    /\ settings = DEFAULT_SETTINGS
    /\ cache = EmptyCache
    /\ nnInstalled = FALSE
    /\ nnMode = "ok"
    /\ CacheHistIdle
    /\ ApplicatorIdle
    /\ loaded = TRUE
    /\ observers = <<>>
    /\ insts \in {<<NewObserver(Kinds[j])>> : j \in DOMAIN Kinds}
    /\ regs = <<>>
    /\ timers = <<>>
    /\ savesPending = 0
    /\ saves = 0
    /\ pendingChanged = {}
    /\ quiet = FALSE
    /\ hostSteps = 0
    /\ tick = FALSE
    /\ changedLog = NoChange
    /\ staleRan = {}
    /\ handlerLog = ObsIdle
    /\ shows = ShowsA
    /\ layout = StdLayout(shows)
    /\ present = AllSurfaces

\* the path the element's surface resolves it to, Null when none resolves
ResolvedPath(e) ==
    CASE e \in {"row", "img", "oth"} ->
            LET filePath == ElemInfo(e).dataPath IN
            IF Truthy(filePath) /\ EndsWith(filePath.s, <<".md">>)
            THEN filePath ELSE Null
      [] e = "tab" ->
            IF Truthy(ElemInfo(e).aria) THEN FindFile(ElemInfo(e).aria.s, <<>>)
            ELSE Null
      [] e \in {"sug", "lsug"} -> SuggesterPath(e)
      [] e = "bl"  -> BacklinkPath(e)
      [] e = "bs"  -> BasesPath(e)
      [] e = "lnk" -> EditorLinkPath(e)

\* what the handler `op` started from and did, in order; skipped: the
\* elements that this or an earlier refresh scanned while no path resolved
\* for them; absentAtStart: the observer's root container was not in the
\* document when start() ran
ObsLog(op, w) ==
    [op |-> op, pre |-> dom, pendPre |-> insts[1].pend, steps |-> w.steps,
     scanned |-> w.scanned, ran |-> w.ran,
     skipped |-> handlerLog.skipped
                 \cup {e \in w.scanned : ~Truthy(ResolvedPath(e))},
     absentAtStart |-> IF op = "start" THEN insts[1].kind \notin present
                       ELSE handlerLog.absentAtStart]

\* a step of the host: no handler of the plugin ran in it
HostStep == [handlerLog EXCEPT !.op = "none"]

\* startObservers: observer.start(); this.observers.push(observer)
OStart ==
    /\ NoPending
    /\ observers = <<>>
    /\ LET w == start(World, 1) IN
       /\ Commit([w EXCEPT !.observers = <<1>>])
       /\ handlerLog' = ObsLog("start", w)
    /\ UNCHANGED <<meta, pendingChanged, treeFixed>>

\* refreshAllObservers() called by startObservers or by the refresh command
ORefreshAll ==
    /\ NoPending
    /\ observers # <<>>
    /\ LET w == refreshAllObservers(World) IN
       /\ Commit(w)
       /\ handlerLog' = ObsLog("refresh", w)
    /\ UNCHANGED <<meta, pendingChanged, treeFixed>>

\* the host index re-parses the note p and triggers "changed"
OEdit(p, m) ==
    /\ NoPending
    /\ meta[p] \notin {NoFile, m}
    /\ meta' = [meta EXCEPT ![p] = m]
    /\ pendingChanged' = {p}
    /\ handlerLog' = HostStep
    /\ UNCHANGED <<cache, dom, nnChecked, nnRef, insts, regs, observers, timers,
                   staleRan, treeFixed>>

\* the plugin's "changed" handler
OChanged(p) ==
    /\ p \in pendingChanged
    /\ pendingChanged' = {}
    /\ LET w == onMetadataChanged(World, p) IN
       /\ Commit(w)
       /\ handlerLog' = ObsLog("changed", w)
    /\ UNCHANGED <<meta, treeFixed>>

\* the host replaces a target element of the observer by a new one
ORerender(e) ==
    /\ NoPending
    /\ e \in TargetSet(insts[1].kind)
    /\ InDocument(e)
    /\ dom[e] # PristineEl
    /\ dom' = [dom EXCEPT ![e] = PristineEl]
    /\ insts' = Notify(insts, e, e)
    /\ handlerLog' = HostStep
    /\ UNCHANGED <<meta, cache, nnChecked, nnRef, regs, observers, timers,
                   staleRan, pendingChanged, treeFixed>>

\* the records queued on the observer's mutation watch are delivered
OCallback ==
    /\ pendingChanged = {}
    /\ insts[1].pend # {}
    /\ LET w == mutationCallback([World EXCEPT !.insts[1].pend = {}], 1, insts[1].pend)
       IN /\ Commit(w)
          /\ handlerLog' = ObsLog("callback", w)
    /\ UNCHANGED <<meta, pendingChanged, treeFixed>>

\* workspace.trigger("layout-change")
OLayoutChange ==
    /\ NoPending
    /\ \E n \in DOMAIN regs : regs[n].ev = "layout-change"
    /\ LET w == Dispatch(World, "layout-change", regs) IN
       /\ Commit(w)
       /\ handlerLog' = ObsLog("layout-change", w)
    /\ UNCHANGED <<meta, pendingChanged, treeFixed>>

ONext ==
    \/ OStart
    \/ ORefreshAll
    \/ \E m \in ObsMetaEntries : OEdit(shows["row"], m)
    \/ \E p \in Paths : OChanged(p)
    \/ \E e \in Elements : ORerender(e)
    \/ OCallback
    \/ OLayoutChange

ObserverSpec == OInit /\ [][ONext]_vars

\* positions of the steps `what` of the observer in the handler's trace
StepsOf(what) ==
    {n \in DOMAIN handlerLog.steps : handlerLog.steps[n] = Step(1, what)}

\* start() ran refresh() once, over every target element, before it
\* subscribed to events and connected its mutation watch
RefreshedThenSubscribed ==
    /\ Cardinality(StepsOf("refresh")) = 1
    /\ handlerLog.scanned = TargetSet(insts[1].kind)
    /\ StepsOf("observe") # {}
    /\ \A n \in StepsOf("refresh"), m \in StepsOf("observe") \cup StepsOf("register") :
           n < m
    /\ insts[1].pend = {}

\* C21 as stated: start() of each of the six observers performs one full
\* refresh over the target elements before it installs its mutation watch
\* and its event subscriptions.
StartRefreshesFirst ==
    handlerLog.op = "start" => RefreshedThenSubscribed

\* C21 amended: so does start() of every observer but the suggester's; the
\* suggester's start() only connects its mutation watch: it scans and styles
\* nothing.
StartRefreshesFirstButSuggester ==
    handlerLog.op = "start" =>
        IF insts[1].kind # "sug" THEN RefreshedThenSubscribed
        ELSE /\ handlerLog.steps = <<Step(1, "observe")>>
             /\ handlerLog.scanned = {}
             /\ dom = handlerLog.pre

\* the suggester was started while a row for a styled note was on screen and
\* left the row as it was
StartRefreshesFirstWitness ==
    /\ handlerLog.op = "start"
    /\ insts[1].kind = "sug"
    /\ insts[1].observing
    /\ computeStyle(shows["sug"]).color = Red
    /\ dom["sug"] = PristineEl

\* the handler ran the observer's refresh()
RefreshRan == handlerLog.op # "none" /\ StepsOf("refresh") # {}

\* in the handler's trace every refresh() of the observer raises the flag on
\* entry and lowers it when it is done: every child-list mutation of the
\* handler is made with the flag raised, and the flag is down when the
\* handler returns
FlagHeldDuringRefresh ==
    /\ \A n \in StepsOf("refresh") :
           n < Len(handlerLog.steps) /\ handlerLog.steps[n + 1] = Step(1, "guard.set")
    /\ \A k \in DOMAIN handlerLog.steps :
           handlerLog.steps[k].what = "write" =>
               \E n \in StepsOf("guard.set"), m \in StepsOf("guard.clear") :
                   /\ n < k /\ k < m
                   /\ \A j \in (n + 1)..(m - 1) : handlerLog.steps[j].what = "write"
    /\ Cardinality(StepsOf("guard.set")) = Cardinality(StepsOf("guard.clear"))
    /\ ~insts[1].isRefreshing

\* refresh() of the observer, called with its flag raised, does nothing
RefreshIsNoOpWhileFlagged ==
    LET w == refresh([World EXCEPT !.insts[1].isRefreshing = TRUE], 1)
    IN w.dom = dom /\ w.cache = cache /\ w.scanned = {}

Unguarded == {"sug", "bl", "bs", "ed"}

\* C23: when a handler has run refresh() of the suggester, backlinks, Bases
\* or editor-links observer, no record of a mutation made by that refresh is
\* queued on the observer's own mutation watch.
NoSelfTrigger ==
    (insts[1].kind \in Unguarded /\ RefreshRan) => "icon" \notin insts[1].pend

----------------------------------------------------------------------------
(* Path resolution.  One observer, whose target elements all display       *)
(* Projects/b.md; one of them is rendered by the host in one of the forms  *)
(* its surface reads (Variants), the others in the standard layout.  The   *)
(* note may not exist yet and be created later.                            *)

\* the references to the note's path without extension: bare or in [[ ]],
\* with or without an alias, with a heading inside or outside the brackets
LinkForms ==
    {Link("path", wrap, alias, heading, FALSE) :
        wrap \in BOOLEAN, alias \in BOOLEAN, heading \in {"none", "in", "out"}}

\* the texts a row displays for a note
TitleForms ==
    {Plain("name"), Plain("path"), Plain("file"), Plain("none"), NoLink,
     Link("name", FALSE, FALSE, "none", TRUE)}

\* the forms in which the host renders element e
Variants(e) ==
    CASE e \in {"row", "tab"} ->
            {Layout(data, StdForms[e].text, NoLink, NoLink) :
                data \in IF e = "row" THEN BOOLEAN ELSE {FALSE}}
      [] e \in {"sug", "lsug", "bl"} ->
            {Layout(data, text, NoLink, NoLink) :
                data \in BOOLEAN, text \in TitleForms}
      [] e = "bs" ->
            {Layout(data, text, href, NoLink) :
                data \in BOOLEAN,
                text \in {Plain("name"), Plain("none"), NoLink},
                href \in {NoLink, Plain("none"), Link("name", TRUE, TRUE, "none", FALSE)}}
            \cup {Layout(FALSE, Plain("label"), href, NoLink) : href \in LinkForms}
            \cup {Layout(FALSE, text, NoLink, NoLink) : text \in LinkForms}
      [] e = "lnk" ->
            {Layout(FALSE, Plain("label"), NoLink, dataHref) :
                dataHref \in LinkForms \cup {Plain("none"), Plain("name")}}
            \cup {Layout(FALSE, Plain("label"), href, NoLink) : href \in LinkForms}
            \cup {Layout(FALSE, text, NoLink, NoLink) :
                    text \in LinkForms \cup {NoLink}}

\* the elements whose rendering varies
Varied == Elements \ {"img", "oth"}

RInit ==
    /\ meta \in [Paths -> {NoFile, NoFM, FM(Fields(Red, Star))}]
    /\ meta[PathA] # NoFM
    /\ settings = DEFAULT_SETTINGS
    /\ cache = EmptyCache
    /\ nnInstalled = FALSE
    /\ nnMode = "ok"
    /\ CacheHistIdle
    /\ ApplicatorIdle
    /\ loaded = TRUE
    /\ observers = <<>>
    /\ regs = <<>>
    /\ timers = <<>>
    /\ savesPending = 0
    /\ saves = 0
    /\ pendingChanged = {}
    /\ quiet = FALSE
    /\ hostSteps = 0
    /\ tick = FALSE
    /\ changedLog = NoChange
    /\ staleRan = {}
    /\ handlerLog = ObsIdle
    /\ shows = [e \in Elements |-> PathB]
    /\ present = AllSurfaces
    /\ \E j \in DOMAIN Kinds :
         /\ insts = <<NewObserver(Kinds[j])>>
         /\ \E e \in TargetSet(Kinds[j]) \cap Varied :
              layout \in {[StdLayout(shows) EXCEPT ![e] = Render(e, shows[e], v)] :
                             v \in Variants(e)}

\* the note p is created with frontmatter; the host index parses it and
\* triggers "changed"
RCreate(p) ==
    /\ NoPending
    /\ meta[p] = NoFile
    /\ meta' = [meta EXCEPT ![p] = FM(Fields(Red, Star))]
    /\ pendingChanged' = {p}
    /\ handlerLog' = HostStep
    /\ UNCHANGED <<cache, dom, nnChecked, nnRef, insts, regs, observers,
                   timers, staleRan, treeFixed>>

RNext ==
    \/ ONext
    \/ \E p \in Paths : RCreate(p)

ResolveSpec == RInit /\ [][RNext]_vars

\* element e was pristine when the handler's refresh scanned it
ScannedPristine(e) ==
    /\ RefreshRan
    /\ e \in handlerLog.scanned
    /\ handlerLog.pre[e] = PristineEl

\* element e is marked and shows the style of the note at `file`
StyledFor(e, file) ==
    /\ dom[e].styled
    /\ ShowsStyle(dom[e], getStyle(cache, file.s))

\* the file each strategy of the Bases cell yields on its own
BasesByData ==
    IF Truthy(ElemInfo("bs").dataPath) /\ IsFile(ElemInfo("bs").dataPath.s)
    THEN ElemInfo("bs").dataPath ELSE Null
BasesByHref ==
    IF Truthy(ElemInfo("bs").href)
    THEN BasesResolveFilePath(ElemInfo("bs").href.s) ELSE Null
BasesByText ==
    IF Truthy(ElemInfo("bs").text)
    THEN BasesResolveFilePath(Trim(ElemInfo("bs").text.s)) ELSE Null
BasesFirstMatch ==
    IF BasesByData # Null THEN BasesByData
    ELSE IF BasesByHref # Null THEN BasesByHref
    ELSE BasesByText

\* C27: a Bases cell that a refresh scanned while pristine is styled for the
\* file of the first of the strategies data attribute, href, displayed text
\* that resolves to a file; a cell whose href resolves to nothing and whose
\* text resolves is styled using the text.
BasesFirstMatchWins ==
    (ScannedPristine("bs") /\ BasesFirstMatch # Null)
        => StyledFor("bs", BasesFirstMatch)

\* the reference that the resolution of element e reads
UsedLink(e) ==
    LET l == layout[e] IN
    CASE e = "bs"  -> IF Truthy(l.href) THEN l.href ELSE l.text
      [] e = "lnk" -> IF Truthy(l.dataHref) THEN l.dataHref
                      ELSE IF Truthy(l.href) THEN l.href
                      ELSE l.text

\* C28: whenever the reference read by the Bases or the editor-link
\* resolution is the path P of an existing note, bare or wrapped in [[ ]],
\* with or without an alias after "|" and a heading after "#", the
\* resolution yields P.md, and a refresh that scans the pristine element
\* gives it the color of that note.
CleanedLinkResolvesAsBarePath ==
    \A e \in {"bs", "lnk"} :
        (/\ ScannedPristine(e)
         /\ ~Truthy(layout[e].dataPath)
         /\ \E f \in LinkForms : UsedLink(e) = Str(LinkText(shows[e], f))
         /\ IsFile(shows[e]))
        => /\ ResolvedPath(e) = Str(shows[e])
           /\ dom[e].color = applyStyle(PristineEl, getStyle(cache, shows[e]),
                                        nnChecked, nnRef).el.color

\* the file the suggestion row e is expected to resolve to
SuggesterExpected(e) ==
    LET l == layout[e]
        title == Trim(l.text.s)
        exact == WithMd(title)
        named == {i \in DOMAIN getMarkdownFiles :
                     basename(getMarkdownFiles[i]) = title}
    IN IF Truthy(l.dataPath) THEN l.dataPath
       ELSE IF title = <<>> THEN Null
       ELSE IF IsFile(exact) THEN Str(exact)
       ELSE IF named # {} THEN Str(getMarkdownFiles[MinOf(named)])
       ELSE Null

UnresolvedUntouched ==
    RefreshRan =>
        \A e \in handlerLog.scanned :
            ~Truthy(ResolvedPath(e)) => dom[e] = handlerLog.pre[e]

\* an element skipped by an earlier refresh is styled by this one
UnresolvedUntouchedWitness ==
    /\ handlerLog.op = "changed"
    /\ \E e \in handlerLog.skipped \cap handlerLog.scanned \cap Varied :
         /\ handlerLog.pre[e] = PristineEl
         /\ dom[e].color = Red

\* C31: a handler of the editor-link observer changes nothing in the
\* document but the inline color of internal links: no icon container, no
\* marker; and it writes the color only when the link resolves to a file
\* whose style has a color, which is then the color written.
EditorLinksOnlyColor ==
    (insts[1].kind = "ed" /\ handlerLog.op # "none") =>
        \A e \in Elements :
            LET pre == handlerLog.pre[e]
                file == ResolvedPath(e)
            IN /\ [dom[e] EXCEPT !.color = pre.color] = pre
               /\ dom[e].color # pre.color =>
                    /\ e = "lnk"
                    /\ Truthy(file)
                    /\ Truthy(getStyle(cache, file.s).color)
                    /\ dom[e].color = getStyle(cache, file.s).color

\* a link to a note with color and icon has been colored, and got no icon
EditorLinksOnlyColorWitness ==
    /\ insts[1].kind = "ed"
    /\ ScannedPristine("lnk")
    /\ Truthy(ResolvedPath("lnk"))
    /\ Truthy(getStyle(cache, ResolvedPath("lnk").s).icon)
    /\ dom["lnk"].color = Red
    /\ ~HasIcon(dom["lnk"].children)

----------------------------------------------------------------------------
(* ComputeSpec: computeStyle over frontmatter fields of every type.        *)

\* values a frontmatter field can hold: absent, null, strings, numbers,
\* booleans, a list
AnyValues ==
    {Undef, Null, EmptyStr, Red, Num(0), Num(5), Bool(FALSE), Bool(TRUE), List}

\* the field names of the settings: the defaults, or the two exchanged
FieldSettings ==
    {DEFAULT_SETTINGS,
     [DEFAULT_SETTINGS EXCEPT !.colorField = "icon", !.iconField = "color"]}

CompInit ==
    /\ meta \in [Paths -> {NoFM} \cup {FM(Fields(c, i)) : c \in AnyValues, i \in AnyValues}]
    /\ meta[PathB] = NoFM
    /\ settings \in FieldSettings
    /\ cache = EmptyCache
    /\ nnInstalled = FALSE
    /\ nnMode = "ok"
    /\ CacheHistIdle
    /\ ApplicatorIdle
    /\ SystemIdle

CompNext ==
    \/ \E p \in Paths : CGetStyle(p)
    \/ \E p \in Paths : CInvalidate(p)
    \/ CClear

ComputeSpec == CompInit /\ [][CompNext]_vars

\* the value the field named n is expected to get from frontmatter f
DefaultFalsy(f, n) == IF Falsy(f[n]) THEN Null ELSE f[n]

\* C32: for a note with frontmatter computeStyle gives each field null when
\* the configured frontmatter field is absent or falsy ("", 0, false, null),
\* and the frontmatter value itself otherwise, whatever its type.
FalsyFieldsDefaultToNull ==
    (lastGet.valid /\ lastGet.first /\ lastGet.metaAtCall.t = "fm") =>
        /\ lastGet.result.color = DefaultFalsy(lastGet.metaAtCall.f, settings.colorField)
        /\ lastGet.result.icon = DefaultFalsy(lastGet.metaAtCall.f, settings.iconField)

----------------------------------------------------------------------------
(* MissSpec: applyStyle(element, path) on paths that resolve to nothing,   *)
(* to a folder, to an attachment, or to a note without frontmatter, while  *)
(* the vault changes and the plugin's handlers invalidate the path.        *)

PathC == <<"c", ".png">>
LookupPaths == Paths \cup {PathC}

\* what the vault can hold at path p
EntriesAt(p) ==
    IF p = PathC THEN {NoFile, Folder, OtherFile}
    ELSE {NoFile, Folder, NoFM, FM(Fields(Red, Star)), FM(Fields(Undef, Undef))}

MissInit ==
    /\ meta \in [LookupPaths -> {NoFile, Folder, OtherFile, NoFM, FM(Fields(Red, Star)),
                                 FM(Fields(Undef, Undef))}]
    /\ \A p \in LookupPaths : meta[p] \in EntriesAt(p)
    /\ meta[PathB] \in {NoFile, NoFM}
    /\ settings = DEFAULT_SETTINGS
    /\ cache = [p \in LookupPaths |-> Absent]
    /\ nnInstalled = FALSE
    /\ nnMode = "ok"
    /\ CacheHistIdle
    /\ ApplicatorIdle
    /\ SystemIdle

\* styleApplicator.applyStyle(row, p)
MissApply(p) ==
    LET style == getStyle(cache, p)
        r == applyStyle(dom["row"], style, nnChecked, nnRef)
    IN /\ cache' = getStyleCache(cache, p)
       /\ dom' = [dom EXCEPT !["row"] = r.el]
       /\ nnChecked' = r.checked
       /\ nnRef' = r.ref
       /\ hist' = [op |-> "apply", p |-> p, pre |-> dom["row"], post |-> r.el,
                   style |-> style, entry |-> meta[p], calls |-> r.calls]
       /\ UNCHANGED <<meta, settings, nnInstalled, nnMode, cacheHist, sysVars>>

\* the vault changes what it holds at p (the note is edited, deleted,
\* created, replaced by a folder); the "changed" or "delete" handler
\* invalidates the path
MissVaultChange(p, m) ==
    /\ meta[p] # m
    /\ m \in EntriesAt(p)
    /\ p = PathB => m \in {NoFile, NoFM}
    /\ meta' = [meta EXCEPT ![p] = m]
    /\ cache' = invalidate(cache, p)
    /\ hist' = [op |-> "env", p |-> p, pre |-> dom["row"], post |-> dom["row"],
                style |-> NullStyle, entry |-> m, calls |-> {}]
    /\ UNCHANGED <<settings, nnVars, dom, cacheHist, sysVars>>

MissNext ==
    \/ \E p \in LookupPaths : MissApply(p)
    \/ \E p \in LookupPaths : \E m \in EntriesAt(p) : MissVaultChange(p, m)

MissSpec == MissInit /\ [][MissNext]_vars

\* the entries for which a lookup misses
MissEntries == {NoFile, Folder, OtherFile, NoFM}

\* C33: applyStyle on a path that resolves to no file, a folder, a
\* non-markdown file or a note without frontmatter gets {null, null} from
\* getStyle and leaves the element and the applicator's state as they were.
LookupMissIsSilent ==
    (hist.op = "apply" /\ hist.entry \in MissEntries) =>
        /\ hist.style = NullStyle
        /\ hist.post = hist.pre
        /\ hist.calls = {}

\* the note of a styled element was deleted or replaced by a folder, and the
\* path was applied to the element again
LookupMissIsSilentWitness ==
    /\ hist.op = "apply"
    /\ hist.entry \in {NoFile, Folder}
    /\ hist.pre.color = Red
    /\ hist.post = hist.pre

----------------------------------------------------------------------------
(* SurfaceSpec: one observer whose surface may not be in the document when *)
(* it is started (the pane is closed) and is opened by the user later.     *)

\* the surfaces the user can close: tree view, tab strip, backlink pane and
\* the editor's leaf; document.body and .workspace are there throughout
Closable == {"fe", "tab", "bl", "ed"}

SurfInit ==
    /\ meta \in [Paths -> ObsMetaEntries]
    /\ meta[PathB] = NoFM
    /\ settings = DEFAULT_SETTINGS
    /\ cache = EmptyCache
    /\ nnInstalled = FALSE
    /\ nnMode = "ok"
    /\ CacheHistIdle
    /\ ApplicatorIdle
    /\ loaded = TRUE
    /\ observers = <<>>
    /\ insts \in {<<NewObserver(k)>> : k \in Closable}
    /\ regs = <<>>
    /\ timers = <<>>
    /\ savesPending = 0
    /\ saves = 0
    /\ pendingChanged = {}
    /\ quiet = FALSE
    /\ hostSteps = 0
    /\ tick = FALSE
    /\ changedLog = NoChange
    /\ staleRan = {}
    /\ handlerLog = ObsIdle
    /\ shows = ShowsA
    /\ layout = StdLayout(shows)
    /\ present \in {AllSurfaces, AllSurfaces \ {insts[1].kind}}

\* the user opens the pane of surface k: its root container and its
\* elements are added to the document
SurfaceAppears(k) ==
    /\ NoPending
    /\ k \notin present
    /\ present' = present \cup {k}
    /\ handlerLog' = HostStep
    /\ UNCHANGED <<meta, nnInstalled, nnMode, shows, layout, settings, cache,
                   nnChecked, nnRef, dom, fresh, firstMeta, lastGet, hist,
                   loaded, observers, insts, regs, timers, savesPending, saves,
                   pendingChanged, quiet, hostSteps, tick, changedLog, staleRan>>

SurfNext ==
    \/ ONext
    \/ \E k \in Closable : SurfaceAppears(k)

SurfaceSpec == SurfInit /\ [][SurfNext]_vars

\* element e carries what its observer's style method gives it for `file`:
\* the color alone on an editor link, color and icon elsewhere
StyledBySurface(e, file) ==
    IF e = "lnk"
    THEN Truthy(getStyle(cache, file.s).color)
            => dom[e].color = getStyle(cache, file.s).color
    ELSE ShowsStyle(dom[e], getStyle(cache, file.s))

\* C34: start() of an observer whose root container is not in the document
\* completes (the observer is in the active list) with no mutation watch
\* connected and nothing queued; once the surface is there, a handler that
\* runs the observer's refresh scans its target elements and styles those
\* that were pristine and resolve to a note.
AbsentSurfaceAtStart ==
    handlerLog.absentAtStart =>
        /\ handlerLog.op = "start" =>
              /\ observers = <<1>>
              /\ ~insts[1].observing
              /\ insts[1].pend = {}
        /\ (RefreshRan /\ insts[1].kind \in present) =>
              \A e \in TargetSet(insts[1].kind) :
                  /\ e \in handlerLog.scanned
                  /\ (handlerLog.pre[e] = PristineEl /\ Truthy(ResolvedPath(e)))
                        => StyledBySurface(e, ResolvedPath(e))

\* the tree view was closed when its observer started; it was opened and a
\* later refresh styled the row, the mutation watch still not connected
AbsentSurfaceAtStartWitness ==
    /\ handlerLog.absentAtStart
    /\ insts[1].kind = "fe"
    /\ "fe" \in present
    /\ RefreshRan
    /\ handlerLog.pre["row"] = PristineEl
    /\ dom["row"].color = Red
    /\ HasIcon(dom["row"].children)
    /\ ~insts[1].observing

----------------------------------------------------------------------------
(* FieldsSpec: the user edits the two field-name boxes of the settings tab *)
(* while a.md is edited, the layout changes and deferred starts fire.      *)
(* The tree view and the tab strip are enabled.  handlerLog keeps, for     *)
(* every cache entry, the field names it was computed with.                *)

\* settings loaded with two surfaces enabled, and every choice of the two
\* field names
FieldsBase ==
    [DEFAULT_SETTINGS EXCEPT !.enableQuickSwitcher = FALSE, !.enableSuggester = FALSE,
                             !.enableBacklinks = FALSE, !.enableBases = FALSE,
                             !.enableEditorLinks = FALSE]
FieldChoices ==
    {[FieldsBase EXCEPT !.colorField = c, !.iconField = i] :
        c \in FieldNames, i \in FieldNames}

Names(st) == <<st.colorField, st.iconField>>
NoNames == <<>>

fieldsFixed == <<shows, layout, present, nnInstalled, nnMode, cacheHist, hist,
                 loaded, quiet, changedLog, tick>>

FInit ==
    /\ meta = [p \in Paths |-> IF p = PathA THEN FM(Fields(Red, Star)) ELSE NoFM]
    /\ settings = FieldsBase
    /\ cache = EmptyCache
    /\ nnInstalled = FALSE
    /\ nnMode = "ok"
    /\ CacheHistIdle
    /\ ApplicatorIdle
    /\ loaded = TRUE
    /\ observers = <<>>
    /\ insts = <<>>
    /\ regs = <<>>
    /\ timers = <<StartTimer>>
    /\ savesPending = 0
    /\ saves = 0
    /\ pendingChanged = {}
    /\ quiet = FALSE
    /\ hostSteps = 0
    /\ tick = FALSE
    /\ changedLog = NoChange
    /\ staleRan = {}
    /\ handlerLog = [names |-> [p \in Paths |-> NoNames], stale |-> FALSE]
    /\ shows = ShowsA
    /\ layout = StdLayout(shows)
    /\ present = AllSurfaces

\* the field names of the cache entries once a handler has left cache map c,
\* having invalidated the paths inval: an entry that is new, or was
\* invalidated and is there again, was computed with the current names
NamesAfter(c, inval) ==
    [p \in Paths |->
        IF c[p] = Absent THEN NoNames
        ELSE IF cache[p] = Absent \/ p \in inval THEN Names(settings)
        ELSE handlerLog.names[p]]

\* the log after a step that leaves the entries' names ns and settings st;
\* stale: some entry has at some time been one computed under other names
\* than the current ones
FieldLog(ns, st) ==
    [names |-> ns,
     stale |-> handlerLog.stale
               \/ \E p \in Paths : ns[p] \notin {NoNames, Names(st)}]

\* a handler has left w, having invalidated inval
FCommit(w, inval) ==
    /\ Commit(w)
    /\ handlerLog' = FieldLog(NamesAfter(w.cache, inval), settings)

\* setTimeout(() => this.startObservers(), 500) fires
FStart(n) ==
    /\ NoPending
    /\ timers[n].kind = "start" /\ Due(n)
    /\ FCommit(startObservers([World EXCEPT !.timers = RemoveAt(timers, n)]), {})
    /\ UNCHANGED <<meta, settings, savesPending, saves, pendingChanged, hostSteps,
                   fieldsFixed>>

\* onChange of a field-name box: the field is set, saveSettings awaits
\* saveData
FBeginSave(st) ==
    /\ NoPending
    /\ saves < MaxSettingsSaves
    /\ \/ st = [settings EXCEPT !.colorField = st.colorField] /\ st # settings
       \/ st = [settings EXCEPT !.iconField = st.iconField] /\ st # settings
    /\ settings' = st
    /\ saves' = saves + 1
    /\ savesPending' = savesPending + 1
    /\ handlerLog' = FieldLog(handlerLog.names, st)
    /\ UNCHANGED <<meta, cache, nnChecked, nnRef, dom, observers, insts, regs,
                   timers, staleRan, pendingChanged, hostSteps, fieldsFixed>>

\* saveData resolved: saveSettings goes on to reinitializeObservers
FFinishSave ==
    /\ NoPending
    /\ savesPending > 0
    /\ savesPending' = savesPending - 1
    /\ FCommit(reinitializeObservers(World), {})
    /\ UNCHANGED <<meta, settings, saves, pendingChanged, hostSteps, fieldsFixed>>

\* the host index re-parses a.md and triggers "changed"
FEdit(m) ==
    /\ NoPending
    /\ hostSteps < MaxEventSteps
    /\ hostSteps' = hostSteps + 1
    /\ meta[PathA] # m
    /\ meta' = [meta EXCEPT ![PathA] = m]
    /\ pendingChanged' = {PathA}
    /\ UNCHANGED <<settings, cache, nnChecked, nnRef, dom, observers, insts, regs,
                   timers, staleRan, savesPending, saves, handlerLog, fieldsFixed>>

\* the plugin's metadataCache.on("changed") handler
FChanged(p) ==
    /\ p \in pendingChanged
    /\ pendingChanged' = {}
    /\ FCommit(onMetadataChanged(World, p), {p})
    /\ UNCHANGED <<meta, settings, savesPending, saves, hostSteps, fieldsFixed>>

\* workspace.trigger("layout-change")
FLayoutChange ==
    /\ NoPending
    /\ hostSteps < MaxEventSteps
    /\ hostSteps' = hostSteps + 1
    /\ \E n \in DOMAIN regs : regs[n].ev = "layout-change"
    /\ FCommit(Dispatch(World, "layout-change", regs), {})
    /\ UNCHANGED <<meta, settings, savesPending, saves, pendingChanged, fieldsFixed>>

\* the records queued on observer i's mutation watch are delivered
FCallback(i) ==
    /\ pendingChanged = {}
    /\ insts[i].pend # {}
    /\ \A j \in 1..(i - 1) : insts[j].pend = {}
    /\ FCommit(mutationCallback([World EXCEPT !.insts[i].pend = {}], i, insts[i].pend), {})
    /\ UNCHANGED <<meta, settings, savesPending, saves, pendingChanged, hostSteps,
                   fieldsFixed>>

FNext ==
    \/ \E n \in DOMAIN timers : FStart(n)
    \/ \E st \in FieldChoices : FBeginSave(st)
    \/ FFinishSave
    \/ \E m \in EvMetaEntries : FEdit(m)
    \/ \E p \in Paths : FChanged(p)
    \/ FLayoutChange
    \/ \E i \in DOMAIN insts : FCallback(i)

FieldsSpec == FInit /\ [][FNext]_vars

----------------------------------------------------------------------------
(* GuardSpec: one TabHeaderObserver with its handlers: layout-change, the  *)
(* deferred refreshes of active-leaf-change and file-open, the mutation    *)
(* callback and the global refresh; in each of them a host call made by    *)
(* refresh() may raise.                                                    *)

GInit == OInit /\ insts[1].kind = "tab"

\* the tab headers a refresh goes over
TabPasses == 1..Len(Passes("tab"))

\* workspace.trigger(ev): layout-change refreshes, the other two set a timer
GEvent(ev) ==
    /\ NoPending
    /\ \E n \in DOMAIN regs : regs[n].ev = ev
    /\ ev # "layout-change" => Len(timers) < MaxTimers
    /\ LET w == Dispatch(World, ev, regs) IN
       /\ Commit(w)
       /\ handlerLog' = ObsLog(ev, w)
    /\ UNCHANGED <<meta, pendingChanged, treeFixed>>

\* setTimeout(() => this.refresh(), 50 | 100) fires
GTimer(n) ==
    /\ NoPending
    /\ timers[n].kind = "refresh" /\ Due(n)
    /\ LET w == refresh([World EXCEPT !.timers = RemoveAt(timers, n)], timers[n].inst) IN
       /\ Commit(w)
       /\ handlerLog' = ObsLog("timer", w)
    /\ UNCHANGED <<meta, pendingChanged, treeFixed>>

\* the layout-change handler, its refresh() raising at the k-th header
GEventThrows(k) ==
    /\ NoPending
    /\ \E n \in DOMAIN regs : regs[n].ev = "layout-change"
    /\ LET w == refreshThrows(World, 1, k) IN
       /\ Commit(w)
       /\ handlerLog' = ObsLog("layout-change.raised", w)
    /\ UNCHANGED <<meta, pendingChanged, treeFixed>>

\* the deferred refresh, raising at the k-th header
GTimerThrows(n, k) ==
    /\ NoPending
    /\ timers[n].kind = "refresh" /\ Due(n)
    /\ LET w == refreshThrows([World EXCEPT !.timers = RemoveAt(timers, n)],
                              timers[n].inst, k) IN
       /\ Commit(w)
       /\ handlerLog' = ObsLog("timer.raised", w)
    /\ UNCHANGED <<meta, pendingChanged, treeFixed>>

\* the mutation callback: if (!this.isRefreshing) this.refresh(), the
\* refresh raising at the k-th header
GCallbackThrows(k) ==
    /\ pendingChanged = {}
    /\ insts[1].pend # {}
    /\ LET w0 == [World EXCEPT !.insts[1].pend = {}]
           w == IF w0.insts[1].isRefreshing THEN w0 ELSE refreshThrows(w0, 1, k)
       IN /\ Commit(w)
          /\ handlerLog' = ObsLog("callback.raised", w)
    /\ UNCHANGED <<meta, pendingChanged, treeFixed>>

GNext ==
    \/ OStart
    \/ ORefreshAll
    \/ \E m \in ObsMetaEntries : OEdit(shows["tab"], m)
    \/ \E p \in Paths : OChanged(p)
    \/ ORerender("tab")
    \/ OCallback
    \/ \E ev \in {"layout-change", "active-leaf-change", "file-open"} : GEvent(ev)
    \/ \E n \in DOMAIN timers : GTimer(n)
    \/ \E k \in TabPasses : GEventThrows(k)
    \/ \E n \in DOMAIN timers, k \in TabPasses : GTimerThrows(n, k)
    \/ \E k \in TabPasses : GCallbackThrows(k)

GuardSpec == GInit /\ [][GNext]_vars

====
